---------------------------- MODULE Spec2Model ----------------------------
(***************************************************************************)
(* Model of the GCP georeferencing engine of ol-ctrl                       *)
(* (src/src/gcp-transform.ts).                                             *)
(*                                                                         *)
(* Numbers.  The source computes with JavaScript numbers.  Here a number   *)
(* is an exact rational [n |-> numerator, d |-> denominator > 0] in lowest *)
(* terms, so "=" below is equality of exact arithmetic; the rounding of    *)
(* IEEE quotients is not modelled.  All inputs are small integers, for     *)
(* which every sum and product of the source is exact in IEEE arithmetic   *)
(* as well; only its quotients can round.                                  *)
(*                                                                         *)
(* A value Math.sqrt(q) is kept as the record [sqrtOf |-> q]: squaring it  *)
(* gives q back and the order of two such values is that of their          *)
(* radicands.                                                              *)
(***************************************************************************)
EXTENDS Integers, Sequences, FiniteSets, TLC

VARIABLES
    gcps,      \* the correspondence list handed to solve / evaluate
    affine,    \* the AffineMatrix in hand (NoMatrix: none)
    origin,    \* where affine came from: "none", "solve" or "caller"
    err,       \* the error thrown by the last solve / invert ("none": none)
    report,    \* the AffineFitReport of the last evaluate (NoReport: none)
    inverse,   \* the result of the last invertAffine (NoMatrix: none)
    pixel,     \* the pixel (u,v) last given to applyAffine (NoPoint: none)
    mapped,    \* applyAffine(affine, pixel)
    back,      \* applyAffine(inverse, mapped)
    pc,        \* the caller's position
    validation,    \* the ValidationResult of the last validateGCPs (NoReport: none)
    call,          \* the last call into the image overlay, with its outcome
    imageLayer,    \* image overlay: id of the displayed layer (Null: none)
    proxyFeature,  \* image overlay: id of the footprint feature (Null: none)
    originalImage, \* image overlay: the decoded source image (Null: none)
    currentAffine, \* image overlay: the matrix of the session (Null: none)
    layers,        \* the image layers on the map, each with its canvas source
    features,      \* the footprint features in the vector source
    loads,         \* the loads suspended at "await createImageElement(file)"
    submitted,     \* the number of loads called so far
    picker,        \* the module state of the GCP picker with its map listener
    toolbar        \* the toolbar: the controllers' modes and the buttons' classes

\* the module state of the image overlay with the map and vector source
session ==
    <<imageLayer, proxyFeature, originalImage, currentAffine, layers, features,
      loads, submitted>>

\* the user interface around the engine: GCP picker and toolbar
ui == <<picker, toolbar>>

\* the variables of the solver's, the inverter's and the validator's callers
engine == <<gcps, affine, origin, err, report, inverse, pixel, mapped, back, validation>>

\* the variables the solver's and the inverter's callers never touch
rest == <<validation, call, session, ui>>

vars == <<gcps, affine, origin, err, report, inverse, pixel, mapped, back, pc, rest>>

-----------------------------------------------------------------------------
(* Bounds of the model *)

\* longest correspondence list
MaxGcps == 4
\* matrix coefficients given by a caller range over -MaxCoef..MaxCoef
MaxCoef == 1
\* pixels given to applyAffine range over (0..MaxUV) \X (0..MaxUV)
MaxUV == 1
\* number of loads of the image overlay called in one behaviour
MaxLoads == 2
\* number of GCPs picked before the list is cleared
MaxPicks == 3
\* number of geometries drawn before the vector source is cleared
MaxDrawn == 3

-----------------------------------------------------------------------------
(* Exact rational arithmetic *)

Abs(x) == IF x < 0 THEN -x ELSE x

RECURSIVE Gcd(_, _)
Gcd(x, y) == IF y = 0 THEN x ELSE Gcd(y, x % y)

\* the rational n/d in lowest terms, d # 0
Rat(n, d) ==
    LET g == Gcd(Abs(n), Abs(d))
        s == IF d < 0 THEN -1 ELSE 1
    IN  [n |-> s * (n \div g), d |-> s * (d \div g)]

FromInt(i) == [n |-> i, d |-> 1]
Zero == FromInt(0)
One == FromInt(1)

RNeg(x) == [n |-> -x.n, d |-> x.d]

RAdd(x, y) ==
    LET g == Gcd(x.d, y.d)
    IN  Rat(x.n * (y.d \div g) + y.n * (x.d \div g), (x.d \div g) * y.d)

RSub(x, y) == RAdd(x, RNeg(y))

RMul(x, y) ==
    LET g1 == Gcd(Abs(x.n), y.d)
        g2 == Gcd(Abs(y.n), x.d)
    IN  IF x.n = 0 \/ y.n = 0 THEN Zero
        ELSE [n |-> (x.n \div g1) * (y.n \div g2),
              d |-> (x.d \div g2) * (y.d \div g1)]

\* x / y, y # 0
RDiv(x, y) ==
    RMul(x, IF y.n < 0 THEN [n |-> -y.d, d |-> -y.n] ELSE [n |-> y.d, d |-> y.n])

RAbs(x) == [n |-> Abs(x.n), d |-> x.d]
RLe(x, y) == RSub(x, y).n <= 0
RLt(x, y) == RSub(x, y).n < 0
RMax(x, y) == IF RLe(x, y) THEN y ELSE x

\* Math.abs(x) < 1e-12: |n|/d < 10^-12 iff (d - 1) \div 10^12 >= |n|
AbsBelowEps(x) ==
    x.n = 0 \/ (((x.d - 1) \div 1000000) \div 1000000) >= Abs(x.n)

\* Math.sqrt(q), kept by its radicand
Sqrt(q) == [sqrtOf |-> q]
\* s ** 2
Squared(s) == s.sqrtOf
\* Math.max(s, t) of two square roots
SqrtMax(s, t) == Sqrt(RMax(s.sqrtOf, t.sqrtOf))

-----------------------------------------------------------------------------
(* Data *)

\* absent values: no matrix (a throw), no point, no report, JavaScript's null
NoMatrix == [absent |-> "matrix"]
NoPoint == <<>>
NoReport == [absent |-> "report"]
Null == [absent |-> "null"]

\* interface AffineMatrix
Matrix(a, b, tx, c, d, ty) == [a |-> a, b |-> b, tx |-> tx, c |-> c, d |-> d, ty |-> ty]

\* interface GCPPoint (mapLonLat is display only)
GCP(id, p, m) == [id |-> id, pixel |-> p, map |-> m]


\* the pixel points and map points a caller draws correspondences from: the
\* the GCP picker once its module is loaded and initGCPPicker has run: no
\* image, nothing pending, no GCP, handleMapClick not registered on the map
PickerLoaded ==
    [state |-> "idle", pendingPixel |-> Null, gcpList |-> <<>>, gcpCounter |-> 0,
     mapClickHandler |-> Null, listeners |-> 0, currentImage |-> Null,
     isDraggingCanvas |-> FALSE, hasDragged |-> FALSE, suppressNextClick |-> FALSE]

\* the toolbar once main.ts has run: no mode is active, no button is marked,
\* nothing is drawn
ToolbarLoaded ==
    [currentDraw |-> Null, currentMode |-> Null,
     isActive |-> [c \in {"transform", "rotate", "scale"} |-> FALSE],
     active |-> {}, drawn |-> <<>>]

\* pixel points hold a square (an over-determined fit), three distinct
\* collinear points and, by repetition, coinciding points
PixelPts == {<<0, 0>>, <<1, 0>>, <<2, 0>>, <<0, 1>>, <<1, 1>>}
MapPts == {<<0, 0>>, <<1, 0>>, <<0, 1>>}

\* Scenario A of the specification, section 8
ScenarioA ==
    << GCP(1, <<0, 0>>, <<100, 100>>),
       GCP(2, <<10, 0>>, <<110, 100>>),
       GCP(3, <<0, 10>>, <<100, 90>>) >>

\* matrices a caller hands to evaluate without solving first
CallerMatrices ==
    { Matrix(One, Zero, Zero, Zero, One, Zero),
      Matrix(FromInt(2), One, One, Zero, FromInt(-1), Zero) }

-----------------------------------------------------------------------------
(* AffineSolver *)

\* Det3 with a slipped index in its last cofactor (m[1][1] for m[1][0])
Det3IndexSlip(m) ==
    m[1][1] * (m[2][2] * m[3][3] - m[2][3] * m[3][2]) -
    m[1][2] * (m[2][1] * m[3][3] - m[2][3] * m[3][1]) +
    m[1][3] * (m[2][2] * m[3][2] - m[2][2] * m[3][1])

\* det = (m) => ... of solveCramer3, on rows 1..3 and columns 1..3
Det3(m) ==
    m[1][1] * (m[2][2] * m[3][3] - m[2][3] * m[3][2]) -
    m[1][2] * (m[2][1] * m[3][3] - m[2][3] * m[3][1]) +
    m[1][3] * (m[2][1] * m[3][2] - m[2][2] * m[3][1])

\* ReplaceColumn with the indices swapped: Ai[i][j] = b[j] replaces a row
ReplaceRow(A, i, b) ==
    [j \in 1..3 |-> [k \in 1..3 |-> IF j = i THEN b[k] ELSE A[j][k]]]

\* A with column i replaced by b: Ai[j][i] = b[j]
ReplaceColumn(A, i, b) ==
    [j \in 1..3 |-> [k \in 1..3 |-> IF k = i THEN b[j] ELSE A[j][k]]]

\* solveCramer3(A, b): the three unknowns, or the throw on a near-zero det
SolveCramer3(A, b) ==
    LET detA == Det3(A)
    IN  IF AbsBelowEps(FromInt(detA))
        THEN [err |-> "DegenerateGeometry", x |-> <<>>]
        ELSE [err |-> "none",
              x |-> [i \in 1..3 |-> Rat(Det3(ReplaceColumn(A, i, b)), detA)]]

\* the row [u, v, 1] of a correspondence
Row(g) == <<g.pixel[1], g.pixel[2], 1>>

\* row[0], row[1], row[2], g.map[0], g.map[1] of a correspondence
Terms(g) == Row(g) \o g.map

RECURSIVE SumProd(_, _, _, _)
\* the running sum += Terms(g)[i] * Terms(g)[j] over the first n of gs
SumProd(gs, n, i, j) ==
    IF n = 0 THEN 0
    ELSE SumProd(gs, n - 1, i, j) + Terms(gs[n])[i] * Terms(gs[n])[j]

\* NormalEquations with Atby accumulated from g.map[0] like Atbx
NormalEquationsCopied(gs) ==
    LET n == Len(gs)
    IN  [AtA  |-> [i \in 1..3 |-> [j \in 1..3 |-> SumProd(gs, n, i, j)]],
         Atbx |-> [i \in 1..3 |-> SumProd(gs, n, i, 4)],
         Atby |-> [i \in 1..3 |-> SumProd(gs, n, i, 4)]]

\* the accumulation loop of the least-squares branch: AtA, Atbx, Atby
NormalEquations(gs) ==
    LET n == Len(gs)
    IN  [AtA  |-> [i \in 1..3 |-> [j \in 1..3 |-> SumProd(gs, n, i, j)]],
         Atbx |-> [i \in 1..3 |-> SumProd(gs, n, i, 4)],
         Atby |-> [i \in 1..3 |-> SumProd(gs, n, i, 5)]]

\* SolveBoth with the second result destructured as [d, c, ty]
SolveBothSwapped(A, bx, by) ==
    LET rx == SolveCramer3(A, bx)
        ry == SolveCramer3(A, by)
    IN  IF rx.err # "none" THEN [err |-> rx.err, m |-> NoMatrix]
        ELSE IF ry.err # "none" THEN [err |-> ry.err, m |-> NoMatrix]
        ELSE [err |-> "none",
              m |-> Matrix(rx.x[1], rx.x[2], rx.x[3], ry.x[2], ry.x[1], ry.x[3])]

\* the two Cramer solves and the result { a, b, tx, c, d, ty }
SolveBoth(A, bx, by) ==
    LET rx == SolveCramer3(A, bx)
        ry == SolveCramer3(A, by)
    IN  IF rx.err # "none" THEN [err |-> rx.err, m |-> NoMatrix]
        ELSE IF ry.err # "none" THEN [err |-> ry.err, m |-> NoMatrix]
        ELSE [err |-> "none",
              m |-> Matrix(rx.x[1], rx.x[2], rx.x[3], ry.x[1], ry.x[2], ry.x[3])]

\* SolveAffineTransform with the length test off by one (n <= 3)
SolveAffineTransformOffByOne(gs) ==
    LET n == Len(gs)
    IN  IF n <= 3 THEN [err |-> "InsufficientPoints", m |-> NoMatrix]
        ELSE LET ne == NormalEquations(gs)
             IN  SolveBoth(ne.AtA, ne.Atbx, ne.Atby)

\* solveAffineTransform(gcps)
SolveAffineTransform(gs) ==
    LET n == Len(gs)
    IN  IF n < 3 THEN [err |-> "InsufficientPoints", m |-> NoMatrix]
        ELSE IF n = 3
        THEN SolveBoth([i \in 1..3 |-> Row(gs[i])],
                       [i \in 1..3 |-> gs[i].map[1]],
                       [i \in 1..3 |-> gs[i].map[2]])
        ELSE LET ne == NormalEquations(gs)
             IN  SolveBoth(ne.AtA, ne.Atbx, ne.Atby)

-----------------------------------------------------------------------------
(* applyAffine, invertAffine *)

\* applyAffine(affine, u, v), u and v rationals
ApplyAffine(m, u, v) ==
    << RAdd(RAdd(RMul(m.a, u), RMul(m.b, v)), m.tx),
       RAdd(RAdd(RMul(m.c, u), RMul(m.d, v)), m.ty) >>

\* a * d - b * c
Det2(m) == RSub(RMul(m.a, m.d), RMul(m.b, m.c))

\* InvertAffine with ib = b / det, the negation lost
InvertAffineSignLost(m) ==
    LET det == Det2(m)
        ia == RDiv(m.d, det)
        ib == RDiv(m.b, det)
        ic == RDiv(RNeg(m.c), det)
        id == RDiv(m.a, det)
    IN  IF AbsBelowEps(det) THEN [err |-> "NonInvertible", m |-> NoMatrix]
        ELSE [err |-> "none",
              m |-> Matrix(ia, ib, RNeg(RAdd(RMul(ia, m.tx), RMul(ib, m.ty))),
                           ic, id, RNeg(RAdd(RMul(ic, m.tx), RMul(id, m.ty))))]

\* InvertAffine with the test det < 1e-12, Math.abs lost
InvertAffineNoAbs(m) ==
    LET det == Det2(m)
        ia == RDiv(m.d, det)
        ib == RDiv(RNeg(m.b), det)
        ic == RDiv(RNeg(m.c), det)
        id == RDiv(m.a, det)
    IN  IF det.n < 0 \/ AbsBelowEps(det) THEN [err |-> "NonInvertible", m |-> NoMatrix]
        ELSE [err |-> "none",
              m |-> Matrix(ia, ib, RNeg(RAdd(RMul(ia, m.tx), RMul(ib, m.ty))),
                           ic, id, RNeg(RAdd(RMul(ic, m.tx), RMul(id, m.ty))))]

\* invertAffine(affine)
InvertAffine(m) ==
    LET det == Det2(m)
        ia == RDiv(m.d, det)
        ib == RDiv(RNeg(m.b), det)
        ic == RDiv(RNeg(m.c), det)
        id == RDiv(m.a, det)
    IN  IF AbsBelowEps(det) THEN [err |-> "NonInvertible", m |-> NoMatrix]
        ELSE [err |-> "none",
              m |-> Matrix(ia, ib, RNeg(RAdd(RMul(ia, m.tx), RMul(ib, m.ty))),
                           ic, id, RNeg(RAdd(RMul(ic, m.tx), RMul(id, m.ty))))]

-----------------------------------------------------------------------------
(* FitEvaluator *)

\* Residual with dy taken from the x coordinates like dx
ResidualCopied(g, m) ==
    LET predicted == ApplyAffine(m, FromInt(g.pixel[1]), FromInt(g.pixel[2]))
        dx == RSub(predicted[1], FromInt(g.map[1]))
        dy == RSub(predicted[1], FromInt(g.map[1]))
    IN  [id |-> g.id,
         errorMeters |-> Sqrt(RAdd(RMul(dx, dx), RMul(dy, dy))),
         observed |-> g.map,
         predicted |-> predicted]

\* the residual of one correspondence: gcps.map(gcp => ...)
Residual(g, m) ==
    LET predicted == ApplyAffine(m, FromInt(g.pixel[1]), FromInt(g.pixel[2]))
        dx == RSub(predicted[1], FromInt(g.map[1]))
        dy == RSub(predicted[2], FromInt(g.map[2]))
    IN  [id |-> g.id,
         errorMeters |-> Sqrt(RAdd(RMul(dx, dx), RMul(dy, dy))),
         observed |-> g.map,
         predicted |-> predicted]

RECURSIVE SumSquares(_, _)
\* residuals.reduce((sum, r) => sum + r.errorMeters ** 2, 0) over the first n
SumSquares(rs, n) ==
    IF n = 0 THEN Zero ELSE RAdd(SumSquares(rs, n - 1), Squared(rs[n].errorMeters))

RECURSIVE MaxError(_, _)
\* residuals.reduce((max, r) => Math.max(max, r.errorMeters), 0) over the first n
MaxError(rs, n) ==
    IF n = 0 THEN Sqrt(Zero) ELSE SqrtMax(MaxError(rs, n - 1), rs[n].errorMeters)

\* ComputeAffineFitReport with the length test gcps.length < 3
ComputeAffineFitReportStrict(gs, m) ==
    IF Len(gs) < 3
    THEN [fitStatus |-> "UNVERIFIABLE_3PT", rmseMeters |-> Null,
          maxErrorMeters |-> Null, residuals |-> <<>>]
    ELSE LET residuals == [i \in 1..Len(gs) |-> Residual(gs[i], m)]
             sse == SumSquares(residuals, Len(residuals))
         IN  [fitStatus |-> "VERIFIED",
              rmseMeters |-> Sqrt(RDiv(sse, FromInt(Len(residuals)))),
              maxErrorMeters |-> MaxError(residuals, Len(residuals)),
              residuals |-> residuals]

\* computeAffineFitReport(gcps, affine)
ComputeAffineFitReport(gs, m) ==
    IF Len(gs) <= 3
    THEN [fitStatus |-> "UNVERIFIABLE_3PT", rmseMeters |-> Null,
          maxErrorMeters |-> Null, residuals |-> <<>>]
    ELSE LET residuals == [i \in 1..Len(gs) |-> Residual(gs[i], m)]
             sse == SumSquares(residuals, Len(residuals))
         IN  [fitStatus |-> "VERIFIED",
              rmseMeters |-> Sqrt(RDiv(sse, FromInt(Len(residuals)))),
              maxErrorMeters |-> MaxError(residuals, Len(residuals)),
              residuals |-> residuals]

-----------------------------------------------------------------------------
(* validateGCPs *)

\* an IEEE quotient with a zero divisor
NaN == [nan |-> TRUE]
Infinity == [inf |-> TRUE]

\* Math.min(s, t) of two square roots
SqrtMin(s, t) == IF RLe(s.sqrtOf, t.sqrtOf) THEN s ELSE t

\* s / t of two square roots: x/0 is Infinity for x > 0 and 0/0 is NaN
SqrtDiv(s, t) ==
    IF t.sqrtOf = Zero
    THEN IF s.sqrtOf = Zero THEN NaN ELSE Infinity
    ELSE Sqrt(RDiv(s.sqrtOf, t.sqrtOf))

\* r > q for the quotient r and a rational q >= 0; NaN compares false
SqrtAbove(r, q) ==
    IF r = NaN THEN FALSE
    ELSE IF r = Infinity THEN TRUE
    ELSE RLt(RMul(q, q), r.sqrtOf)

\* s < q for a square root s and a rational q >= 0
SqrtBelow(s, q) == RLt(s.sqrtOf, RMul(q, q))

\* Math.sqrt((p[0] - q[0]) ** 2 + (p[1] - q[1]) ** 2) of two points
Dist(p, q) ==
    Sqrt(FromInt((p[1] - q[1]) * (p[1] - q[1]) + (p[2] - q[2]) * (p[2] - q[2])))

\* the pairs (i, j) of the loops "for i" / "for j = i + 1", in loop order
\* (1-based, as the messages number them)
RECURSIVE PairsFrom(_, _, _)
PairsFrom(i, j, n) ==
    IF i > n THEN <<>>
    ELSE IF j > n THEN PairsFrom(i + 1, i + 2, n)
    ELSE <<<<i, j>>>> \o PairsFrom(i, j + 1, n)

\* only neighbours in the list are compared
PairsAdjacent(n) == [k \in 1..(n - 1) |-> <<k, k + 1>>]

PairsInOrder(n) == PairsFrom(1, 2, n)

\* the errors of the duplicate-pixel loop: one per pair less than 1 apart
DuplicatePixelErrors(gs) ==
    LET Close(p) == SqrtBelow(Dist(gs[p[1]].pixel, gs[p[2]].pixel), One)
        close == SelectSeq(PairsInOrder(Len(gs)), Close)
    IN  [k \in 1..Len(close) |->
            [kind |-> "duplicatePixel", i |-> close[k][1], j |-> close[k][2]]]

\* the errors of the duplicate-map loop: one per pair less than 0.01 apart
DuplicateMapErrors(gs) ==
    LET Close(p) == SqrtBelow(Dist(gs[p[1]].map, gs[p[2]].map), Rat(1, 100))
        close == SelectSeq(PairsInOrder(Len(gs)), Close)
    IN  [k \in 1..Len(close) |->
            [kind |-> "duplicateMap", i |-> close[k][1], j |-> close[k][2]]]

\* the last three pixel points are taken instead of the first three
LastThreeArea(gs) ==
    LET n == Len(gs)
        p1 == gs[n - 2].pixel
        p2 == gs[n - 1].pixel
        p3 == gs[n].pixel
    IN  Abs(p1[1] * (p2[2] - p3[2]) + p2[1] * (p3[2] - p1[2]) + p3[1] * (p1[2] - p2[2]))

\* "area" of the first three pixel points (twice the triangle's area)
FirstThreeArea(gs) ==
    LET p1 == gs[1].pixel
        p2 == gs[2].pixel
        p3 == gs[3].pixel
    IN  Abs(p1[1] * (p2[2] - p3[2]) + p2[1] * (p3[2] - p1[2]) + p3[1] * (p1[2] - p2[2]))

\* the collinearity check is left out
CollinearErrorsNone(gs) == <<>>

\* the collinearity error, if the first three pixel points span less than 1
CollinearErrors(gs) ==
    IF FirstThreeArea(gs) < 1 THEN <<[kind |-> "collinear"]>> ELSE <<>>

\* the warning of the scale check; an error thrown by the solve is swallowed
ScaleWarnings(gs) ==
    LET r == SolveAffineTransform(gs)
    IN  IF r.err # "none" THEN <<>>
        ELSE LET sx == Sqrt(RAdd(RMul(r.m.a, r.m.a), RMul(r.m.c, r.m.c)))
                 sy == Sqrt(RAdd(RMul(r.m.b, r.m.b), RMul(r.m.d, r.m.d)))
                 ratio == SqrtDiv(SqrtMax(sx, sy), SqrtMin(sx, sy))
             IN  IF SqrtAbove(ratio, FromInt(10))
                 THEN <<[kind |-> "scaleRatio"]>>
                 ELSE <<>>

\* a warning makes the result invalid as well
ValidateGCPsWarningFatal(gs) ==
    IF Len(gs) < 3
    THEN [valid |-> FALSE,
          errors |-> <<[kind |-> "tooFew", n |-> Len(gs)]>>,
          warnings |-> <<>>]
    ELSE LET errors == DuplicatePixelErrors(gs) \o DuplicateMapErrors(gs)
                         \o CollinearErrors(gs)
         IN  [valid |-> Len(errors) = 0 /\ Len(ScaleWarnings(gs)) = 0,
              errors |-> errors,
              warnings |-> ScaleWarnings(gs)]

\* validateGCPs(gs): the ValidationResult
ValidateGCPs(gs) ==
    IF Len(gs) < 3
    THEN [valid |-> FALSE,
          errors |-> <<[kind |-> "tooFew", n |-> Len(gs)]>>,
          warnings |-> <<>>]
    ELSE LET errors == DuplicatePixelErrors(gs) \o DuplicateMapErrors(gs)
                         \o CollinearErrors(gs)
         IN  [valid |-> Len(errors) = 0,
              errors |-> errors,
              warnings |-> ScaleWarnings(gs)]

-----------------------------------------------------------------------------
(* isParallelogram (image overlay) *)

\* Math.hypot(x, y)
Hypot(x, y) == Sqrt(RAdd(RMul(x, x), RMul(y, y)))

\* s + t of two square roots, kept by the two radicands
SqrtSum(s, t) == [terms |-> <<s.sqrtOf, t.sqrtOf>>]

\* Math.min(x, y) of two rationals
RMin(x, y) == IF RLe(x, y) THEN x ELSE y

\* z >= 1 for a sum z of two square roots: sqrt(B) + sqrt(C) >= 1 iff
\* 2 sqrt(B C) >= 1 - B - C, where 2 min(B, C) <= 2 sqrt(B C) <= B + C
SumAtLeastOne(z) ==
    LET s == RAdd(z.terms[1], z.terms[2])
        rem == RSub(One, s)
        lo == RMin(z.terms[1], z.terms[2])
    IN  IF RLe(rem, RAdd(lo, lo)) THEN TRUE
        ELSE IF RLt(s, rem) THEN FALSE
        ELSE RLe(RMul(rem, rem), RMul(FromInt(4), RMul(z.terms[1], z.terms[2])))

\* Math.max(1, z) for a sum z of two square roots (1 = sqrt(1) + sqrt(0))
MaxOne(z) == IF SumAtLeastOne(z) THEN z ELSE [terms |-> <<One, Zero>>]

\* h / z < tol for a square root h, a sum z >= 1 of two square roots and a
\* rational tol > 0: sqrt(A) < tol (sqrt(B) + sqrt(C)) iff
\* A / tol^2 - B - C < 2 sqrt(B C), where
\* 2 min(B, C) <= 2 sqrt(B C) <= B + C
QuotBelow(h, z, tol) ==
    LET s == RAdd(z.terms[1], z.terms[2])
        l == RSub(RDiv(h.sqrtOf, RMul(tol, tol)), s)
        lo == RMin(z.terms[1], z.terms[2])
    IN  IF RLt(l, RAdd(lo, lo)) THEN TRUE
        ELSE IF RLe(s, l) THEN FALSE
        ELSE RLt(RMul(l, l), RMul(FromInt(4), RMul(z.terms[1], z.terms[2])))

\* the default of the parameter "tolerance"
Tolerance == Rat(1, 10000)

\* the offset is compared with the diagonals alone, without the floor of 1
IsParallelogramNoFloor(corners) ==
    IF Len(corners) < 4 THEN FALSE
    ELSE LET p0 == corners[1]
             p1 == corners[2]
             p2 == corners[3]
             p3 == corners[4]
             dx == RSub(RAdd(p0[1], p2[1]), RAdd(p1[1], p3[1]))
             dy == RSub(RAdd(p0[2], p2[2]), RAdd(p1[2], p3[2]))
             diag == SqrtSum(Hypot(RSub(p2[1], p0[1]), RSub(p2[2], p0[2])),
                             Hypot(RSub(p3[1], p1[1]), RSub(p3[2], p1[2])))
         IN  QuotBelow(Hypot(dx, dy), diag, Tolerance)

\* isParallelogram(corners), corners a sequence of points of rationals
IsParallelogram(corners) ==
    IF Len(corners) < 4 THEN FALSE
    ELSE LET p0 == corners[1]
             p1 == corners[2]
             p2 == corners[3]
             p3 == corners[4]
             dx == RSub(RAdd(p0[1], p2[1]), RAdd(p1[1], p3[1]))
             dy == RSub(RAdd(p0[2], p2[2]), RAdd(p1[2], p3[2]))
             diag == SqrtSum(Hypot(RSub(p2[1], p0[1]), RSub(p2[2], p0[2])),
                             Hypot(RSub(p3[1], p1[1]), RSub(p3[2], p1[2])))
             scale == MaxOne(diag)
         IN  QuotBelow(Hypot(dx, dy), scale, Tolerance)

-----------------------------------------------------------------------------
(* decomposeAffineToGeoImageParams *)

\* the largest r in lo..hi with r * r <= n
RECURSIVE RootSearch(_, _, _)
RootSearch(n, lo, hi) ==
    IF lo = hi THEN lo
    ELSE LET mid == (lo + hi + 1) \div 2
         IN  IF mid * mid <= n THEN RootSearch(n, mid, hi)
             ELSE RootSearch(n, lo, mid - 1)

\* Math.sqrt(q) as a rational, for q the square of a rational
ExactRoot(q) == Rat(RootSearch(q.n, 0, 46340), RootSearch(q.d, 0, 46340))

\* decomposeAffineToGeoImageParams(m, imgW, imgH), for matrices whose
\* a^2 + c^2 and b^2 + d^2 are squares of rationals.  theta = atan2(c, a) is
\* kept by its cosine a / sx and sine c / sx (1 and 0 for a = c = 0), and
\* imageRotate = -theta likewise; "warned" tells whether console.warn was
\* called with the shear message.
DecomposeAffineToGeoImageParams(m, imgW, imgH) ==
    LET cx == Rat(imgW, 2)
        cy == Rat(imgH, 2)
        P == RAdd(RMul(m.a, m.a), RMul(m.c, m.c))
        Q == RAdd(RMul(m.b, m.b), RMul(m.d, m.d))
        sx == ExactRoot(P)
        sy == ExactRoot(Q)
        cosT == IF P = Zero THEN One ELSE RDiv(m.a, sx)
        sinT == IF P = Zero THEN Zero ELSE RDiv(m.c, sx)
        expectedB == RNeg(RMul(sy, sinT))
        expectedD == RMul(sy, cosT)
        shearError == RAdd(RAbs(RSub(m.b, expectedB)), RAbs(RSub(m.d, expectedD)))
    IN  [imageCenter |-> <<RAdd(RAdd(RMul(m.a, cx), RMul(m.b, cy)), m.tx),
                           RAdd(RAdd(RMul(m.c, cx), RMul(m.d, cy)), m.ty)>>,
         imageScale |-> <<Sqrt(P), Sqrt(Q)>>,
         imageRotate |-> [cos |-> cosT, sin |-> RNeg(sinT)],
         warned |-> RLt(RMul(Rat(1, 100), RAdd(sx, sy)), shearError)]

-----------------------------------------------------------------------------
(* createProxyPolygonFromAffine and the canvas source of the image overlay *)

\* the last two corners are taken in the other winding order
CreateProxyPolygonCrossed(m, imgW, imgH) ==
    LET corners == <<<<0, 0>>, <<imgW, 0>>, <<0, imgH>>, <<imgW, imgH>>>>
        mapCorners ==
            [i \in 1..4 |->
                <<RAdd(RAdd(RMul(m.a, FromInt(corners[i][1])),
                            RMul(m.b, FromInt(corners[i][2]))), m.tx),
                  RAdd(RAdd(RMul(m.c, FromInt(corners[i][1])),
                            RMul(m.d, FromInt(corners[i][2]))), m.ty)>>]
    IN  Append(mapCorners, mapCorners[1])

\* createProxyPolygonFromAffine(m, imgW, imgH): the ring of the Polygon
CreateProxyPolygonFromAffine(m, imgW, imgH) ==
    LET corners == <<<<0, 0>>, <<imgW, 0>>, <<imgW, imgH>>, <<0, imgH>>>>
        mapCorners ==
            [i \in 1..4 |->
                <<RAdd(RAdd(RMul(m.a, FromInt(corners[i][1])),
                            RMul(m.b, FromInt(corners[i][2]))), m.tx),
                  RAdd(RAdd(RMul(m.c, FromInt(corners[i][1])),
                            RMul(m.d, FromInt(corners[i][2]))), m.ty)>>]
    IN  Append(mapCorners, mapCorners[1])

\* a decoded image: naturalWidth, naturalHeight and its RGBA bytes, row by row
Image(name, w, h, data) == [name |-> name, w |-> w, h |-> h, data |-> data]

\* the smallest and the largest element of a set of integers
SetMin(S) == CHOOSE x \in S : \A y \in S : x <= y
SetMax(S) == CHOOSE x \in S : \A y \in S : y <= x

\* Polygon.getExtent() of a ring of integer points: minX, minY, maxX, maxY
Extent(ring) ==
    LET xs == {ring[i][1] : i \in 1..Len(ring)}
        ys == {ring[i][2] : i \in 1..Len(ring)}
    IN  <<SetMin(xs), SetMin(ys), SetMax(xs), SetMax(ys)>>

\* createAffineCanvasSource that takes whatever invertAffine computes
CreateAffineCanvasSourceUnchecked(image, m, ring) ==
    [err |-> "none",
     source |-> [image |-> image,
                 inverse |-> InvertAffine(m).m,
                 polygon |-> SubSeq(ring, 1, Len(ring) - 1),
                 polyExtent |-> Extent(ring)]]

\* createAffineCanvasSource(image, m, ring): what the canvasFunction closes
\* over, or the error thrown by invertAffine
CreateAffineCanvasSource(image, m, ring) ==
    LET inv == InvertAffine(m)
    IN  IF inv.err # "none"
        THEN [err |-> inv.err, source |-> Null]
        ELSE [err |-> "none",
              source |-> [image |-> image,
                          inverse |-> inv.m,
                          polygon |-> SubSeq(ring, 1, Len(ring) - 1),
                          polyExtent |-> Extent(ring)]]

-----------------------------------------------------------------------------
(* The warp: pointInPolygon, sampleBilinear and the canvasFunction *)

\* Math.floor(x)
Floor(x) == x.n \div x.d

\* Math.round(x): the nearest integer, halves upwards
MathRound(x) == Floor(RAdd(x, Rat(1, 2)))

\* the test "intersect" of pointInPolygon for the edge from polygon[j] to
\* polygon[i].  Number.EPSILON is taken as an infinitesimal e > 0: the
\* quotient num / (dy + e) lies above num / dy exactly when num < 0, which
\* decides the comparison for a point on the line of the edge.
Intersect(x, y, pi, pj) ==
    LET xi == FromInt(pi[1])
        yi == FromInt(pi[2])
        xj == FromInt(pj[1])
        yj == FromInt(pj[2])
        num == RMul(RSub(xj, xi), RSub(y, yi))
        left == RSub(x, xi)
    IN  /\ RLt(y, yi) # RLt(y, yj)
        /\ LET q == RDiv(num, RSub(yj, yi))
           IN  IF left = q THEN num.n < 0 ELSE RLt(left, q)

\* pointInPolygon(<<x, y>>, polygon): "inside" is toggled once per
\* intersecting edge, so it ends true iff their number is odd
PointInPolygon(x, y, polygon) ==
    LET n == Len(polygon)
        hits == {i \in 1..n :
                    Intersect(x, y, polygon[i], polygon[IF i = 1 THEN n ELSE i - 1])}
    IN  Cardinality(hits) % 2 = 1

\* sampleBilinear stands in for the blend: the first of the four samples
SampleNearest(srcData, srcWidth, srcHeight, u, v) ==
    LET x == RMax(Zero, RMin(FromInt(srcWidth - 1), u))
        y == RMax(Zero, RMin(FromInt(srcHeight - 1), v))
        i00 == (Floor(y) * srcWidth + Floor(x)) * 4
    IN  [c \in 1..4 |-> FromInt(srcData[i00 + c])]

\* the indices i00, i10, i01, i11 that sampleBilinear computes for (u, v)
SampleIndices(srcWidth, srcHeight, u, v) ==
    LET x == RMax(Zero, RMin(FromInt(srcWidth - 1), u))
        y == RMax(Zero, RMin(FromInt(srcHeight - 1), v))
        x0 == Floor(x)
        y0 == Floor(y)
        x1 == IF x0 + 1 <= srcWidth - 1 THEN x0 + 1 ELSE srcWidth - 1
        y1 == IF y0 + 1 <= srcHeight - 1 THEN y0 + 1 ELSE srcHeight - 1
    IN  <<(y0 * srcWidth + x0) * 4, (y0 * srcWidth + x1) * 4,
          (y1 * srcWidth + x0) * 4, (y1 * srcWidth + x1) * 4>>

\* sampleBilinear with the weights tx and 1 - tx exchanged
SampleBilinearSwapped(srcData, srcWidth, srcHeight, u, v) ==
    LET x == RMax(Zero, RMin(FromInt(srcWidth - 1), u))
        y == RMax(Zero, RMin(FromInt(srcHeight - 1), v))
        tx == RSub(x, FromInt(Floor(x)))
        ty == RSub(y, FromInt(Floor(y)))
        i == SampleIndices(srcWidth, srcHeight, u, v)
    IN  [c \in 1..4 |->
            LET top == RAdd(RMul(FromInt(srcData[i[1] + c]), tx),
                            RMul(FromInt(srcData[i[2] + c]), RSub(One, tx)))
                bottom == RAdd(RMul(FromInt(srcData[i[3] + c]), tx),
                               RMul(FromInt(srcData[i[4] + c]), RSub(One, tx)))
            IN  RAdd(RMul(top, RSub(One, ty)), RMul(bottom, ty))]

\* sampleBilinear(srcData, srcWidth, srcHeight, u, v); srcData[i] of the
\* source is srcData[i + 1] here
SampleBilinear(srcData, srcWidth, srcHeight, u, v) ==
    LET x == RMax(Zero, RMin(FromInt(srcWidth - 1), u))
        y == RMax(Zero, RMin(FromInt(srcHeight - 1), v))
        x0 == Floor(x)
        y0 == Floor(y)
        tx == RSub(x, FromInt(x0))
        ty == RSub(y, FromInt(y0))
        i00 == SampleIndices(srcWidth, srcHeight, u, v)[1]
        i10 == SampleIndices(srcWidth, srcHeight, u, v)[2]
        i01 == SampleIndices(srcWidth, srcHeight, u, v)[3]
        i11 == SampleIndices(srcWidth, srcHeight, u, v)[4]
    IN  [c \in 1..4 |->
            LET top == RAdd(RMul(FromInt(srcData[i00 + c]), RSub(One, tx)),
                            RMul(FromInt(srcData[i10 + c]), tx))
                bottom == RAdd(RMul(FromInt(srcData[i01 + c]), RSub(One, tx)),
                               RMul(FromInt(srcData[i11 + c]), tx))
            IN  RAdd(RMul(top, RSub(One, ty)), RMul(bottom, ty))]

\* the four bytes the canvasFunction leaves at output pixel (px, py)
WarpPixel(source, extent, width, height, px, py) ==
    LET minX == extent[1]
        minY == extent[2]
        maxX == extent[3]
        maxY == extent[4]
        y == RSub(maxY, RMul(RAdd(FromInt(py), Rat(1, 2)),
                             RDiv(RSub(maxY, minY), FromInt(height))))
        x == RAdd(minX, RMul(RAdd(FromInt(px), Rat(1, 2)),
                             RDiv(RSub(maxX, minX), FromInt(width))))
        uv == ApplyAffine(source.inverse, x, y)
        image == source.image
    IN  IF \/ RLt(x, FromInt(source.polyExtent[1]))
           \/ RLt(FromInt(source.polyExtent[3]), x)
           \/ RLt(y, FromInt(source.polyExtent[2]))
           \/ RLt(FromInt(source.polyExtent[4]), y)
        THEN <<0, 0, 0, 0>>
        ELSE IF ~PointInPolygon(x, y, source.polygon)
        THEN <<0, 0, 0, 0>>
        ELSE IF \/ RLt(uv[1], Zero) \/ RLe(FromInt(image.w), uv[1])
                \/ RLt(uv[2], Zero) \/ RLe(FromInt(image.h), uv[2])
        THEN <<0, 0, 0, 0>>
        ELSE LET rgba == SampleBilinear(image.data, image.w, image.h, uv[1], uv[2])
             IN  [c \in 1..4 |-> MathRound(rgba[c])]

\* canvasFunction(requestedExtent, _, _, size) of a canvas source: the
\* width, the height and the bytes of the canvas it returns
CanvasFunction(source, extent, size) ==
    LET width == IF MathRound(size[1]) >= 1 THEN MathRound(size[1]) ELSE 1
        height == IF MathRound(size[2]) >= 1 THEN MathRound(size[2]) ELSE 1
        pixels == [p \in 0..(width * height - 1) |->
                      WarpPixel(source, extent, width, height, p % width, p \div width)]
    IN  [width |-> width, height |-> height,
         data |-> [k \in 1..(4 * width * height) |->
                      pixels[(k - 1) \div 4][((k - 1) % 4) + 1]]]

-----------------------------------------------------------------------------
(* The solver's callers: a correspondence list is built, solved, evaluated *)

\* <<u, v, x, y>> of a correspondence, compared in dictionary order
Key(g) == <<g.pixel[1], g.pixel[2], g.map[1], g.map[2]>>

RECURSIVE LexLeq(_, _, _)
LexLeq(s, t, i) ==
    IF i > Len(s) THEN TRUE
    ELSE IF s[i] # t[i] THEN s[i] < t[i]
    ELSE LexLeq(s, t, i + 1)

InitIdle ==
    /\ gcps = <<>>
    /\ affine = NoMatrix
    /\ origin = "none"
    /\ err = "none"
    /\ report = NoReport
    /\ inverse = NoMatrix
    /\ pixel = NoPoint
    /\ mapped = NoPoint
    /\ back = NoPoint
    /\ validation = NoReport
    /\ call = Null
    /\ imageLayer = Null
    /\ proxyFeature = Null
    /\ originalImage = Null
    /\ currentAffine = Null
    /\ layers = {}
    /\ features = {}
    /\ loads = {}
    /\ submitted = 0
    /\ picker = PickerLoaded
    /\ toolbar = ToolbarLoaded

InitSolve == InitIdle /\ pc = "input"

\* A caller appends one correspondence.  solveAffineTransform sums over the
\* list (n >= 4) or permutes the rows of both determinants alike (n = 3), so
\* the lists are drawn in nondecreasing order of Key.
AddGCP(p, m) ==
    /\ pc = "input"
    /\ Len(gcps) < MaxGcps
    /\ gcps # ScenarioA
    /\ LET g == GCP(Len(gcps) + 1, p, m)
       IN  /\ IF gcps = <<>> THEN TRUE ELSE LexLeq(Key(gcps[Len(gcps)]), Key(g), 1)
           /\ gcps' = Append(gcps, g)
    /\ UNCHANGED <<rest, affine, origin, err, report, inverse, pixel, mapped, back, pc>>

\* A caller takes the three correspondences of Scenario A.
LoadScenarioA ==
    /\ pc = "input"
    /\ gcps = <<>>
    /\ gcps' = ScenarioA
    /\ UNCHANGED <<rest, affine, origin, err, report, inverse, pixel, mapped, back, pc>>

\* solveAffineTransform(gcps): the matrix, or the error thrown
Solve ==
    /\ pc = "input"
    /\ LET r == SolveAffineTransform(gcps)
       IN  /\ affine' = r.m
           /\ err' = r.err
    /\ origin' = "solve"
    /\ pc' = "solved"
    /\ UNCHANGED <<rest, gcps, report, inverse, pixel, mapped, back>>

\* A caller brings a matrix of its own to evaluate.
UseAffine(m) ==
    /\ pc = "input"
    /\ affine' = m
    /\ origin' = "caller"
    /\ pc' = "solved"
    /\ UNCHANGED <<rest, gcps, err, report, inverse, pixel, mapped, back>>

\* computeAffineFitReport(gcps, affine)
Evaluate ==
    /\ pc = "solved"
    /\ affine # NoMatrix
    /\ report' = ComputeAffineFitReport(gcps, affine)
    /\ pc' = "evaluated"
    /\ UNCHANGED <<rest, gcps, affine, origin, err, inverse, pixel, mapped, back>>

NextSolve ==
    \/ \E p \in PixelPts, m \in MapPts : AddGCP(p, m)
    \/ LoadScenarioA
    \/ Solve
    \/ \E m \in CallerMatrices : UseAffine(m)
    \/ Evaluate

SpecSolve == InitSolve /\ [][NextSolve]_vars

-----------------------------------------------------------------------------
(* The inverter's callers: a matrix is inverted, a pixel mapped there and back *)

Coefs == {FromInt(i) : i \in -MaxCoef..MaxCoef}
Shifts == {FromInt(i) : i \in 0..MaxCoef}
UVs == (0..MaxUV) \X (0..MaxUV)

InitInvert == InitIdle /\ pc = "matrix"

\* A caller brings any matrix, singular ones included.
TakeMatrix(a, b, tx, c, d, ty) ==
    /\ pc = "matrix"
    /\ affine' = Matrix(a, b, tx, c, d, ty)
    /\ origin' = "caller"
    /\ pc' = "invert"
    /\ UNCHANGED <<rest, gcps, err, report, inverse, pixel, mapped, back>>

\* invertAffine(affine): the inverse, or the error thrown
Invert ==
    /\ pc = "invert"
    /\ LET r == InvertAffine(affine)
       IN  /\ inverse' = r.m
           /\ err' = r.err
    /\ pc' = "inverted"
    /\ UNCHANGED <<rest, gcps, affine, origin, report, pixel, mapped, back>>

\* applyAffine(affine, u, v)
Forward(u, v) ==
    /\ pc = "inverted"
    /\ inverse # NoMatrix
    /\ pixel' = <<FromInt(u), FromInt(v)>>
    /\ mapped' = ApplyAffine(affine, FromInt(u), FromInt(v))
    /\ pc' = "mapped"
    /\ UNCHANGED <<rest, gcps, affine, origin, err, report, inverse, back>>

\* applyAffine(inverse, x, y) on the mapped point
Backward ==
    /\ pc = "mapped"
    /\ back' = ApplyAffine(inverse, mapped[1], mapped[2])
    /\ pc' = "back"
    /\ UNCHANGED <<rest, gcps, affine, origin, err, report, inverse, pixel, mapped>>

NextInvert ==
    \/ \E a, b, c, d \in Coefs, tx, ty \in Shifts : TakeMatrix(a, b, tx, c, d, ty)
    \/ Invert
    \/ \E uv \in UVs : Forward(uv[1], uv[2])
    \/ Backward

SpecInvert == InitInvert /\ [][NextInvert]_vars
-----------------------------------------------------------------------------
(* The validator's callers: a correspondence list in any order is validated *)

\* the correspondences a caller picks from: a unit-square fit, a fit eleven
\* times wider than high, a third point on the line of two others, and a
\* point that repeats both a pixel and a map point
ValidateCorrs ==
    {<<<<0, 0>>, <<0, 0>>>>, <<<<1, 0>>, <<1, 0>>>>, <<<<0, 1>>, <<0, 1>>>>,
     <<<<1, 0>>, <<11, 0>>>>, <<<<1, 1>>, <<11, 1>>>>, <<<<2, 0>>, <<22, 0>>>>,
     <<<<1, 0>>, <<0, 1>>>>}

InitValidate == InitIdle /\ pc = "collect"

\* A caller appends one correspondence, in any order.
PickGCP(p, m) ==
    /\ pc = "collect"
    /\ Len(gcps) < MaxGcps
    /\ gcps' = Append(gcps, GCP(Len(gcps) + 1, p, m))
    /\ UNCHANGED <<affine, origin, err, report, inverse, pixel, mapped, back, pc, rest>>

\* validateGCPs(gcps)
Validate ==
    /\ pc = "collect"
    /\ validation' = ValidateGCPs(gcps)
    /\ pc' = "validated"
    /\ UNCHANGED <<gcps, affine, origin, err, report, inverse, pixel, mapped, back,
                   call, session, ui>>

NextValidate ==
    \/ \E c \in ValidateCorrs : PickGCP(c[1], c[2])
    \/ Validate

SpecValidate == InitValidate /\ [][NextValidate]_vars

-----------------------------------------------------------------------------
(* The projector's caller: a matrix in hand is projected for an image size *)

\* image sizes naturalWidth x naturalHeight
Sizes == (1..(MaxUV + 1)) \X (1..(MaxUV + 1))

\* createProxyPolygonFromAffine(affine, w, h)
Project(w, h) ==
    /\ pc = "invert"
    /\ call' = [op |-> "createProxyPolygonFromAffine", w |-> w, h |-> h,
                result |-> CreateProxyPolygonFromAffine(affine, w, h)]
    /\ pc' = "projected"
    /\ UNCHANGED <<gcps, affine, origin, err, report, inverse, pixel, mapped, back,
                   validation, session, ui>>

NextProject ==
    \/ \E a, b, c, d \in Coefs, tx, ty \in Shifts : TakeMatrix(a, b, tx, c, d, ty)
    \/ \E s \in Sizes : Project(s[1], s[2])

SpecProject == InitInvert /\ [][NextProject]_vars

-----------------------------------------------------------------------------
(* The parallelogram gate's caller: the corners of an edited footprint *)

\* the point <<x, y>> of integers as a pair of rationals
RPoint(p) == <<FromInt(p[1]), FromInt(p[2])>>

\* p + q, p - q and k * p for points of rationals
PAdd(p, q) == <<RAdd(p[1], q[1]), RAdd(p[2], q[2])>>
PScale(k, p) == <<RMul(k, p[1]), RMul(k, p[2])>>

\* the shapes a footprint has before a corner is moved, by their two edge
\* vectors: a square, a square turned by 45 degrees, a rectangle, a sheared
\* parallelogram; and a long thin rectangle
GateShapes ==
    {<<<<1, 0>>, <<0, 1>>>>, <<<<1, 1>>, <<-1, 1>>>>,
     <<<<2, 0>>, <<0, 1>>>>, <<<<1, 0>>, <<1, 1>>>>}
LongShape == <<<<7072, 0>>, <<0, 1>>>>
\* their small sizes, their positions, and the displacements of the moved
\* corner at the small sizes, at size 1 and of the long rectangle
SmallScales == {Rat(1, 1000), Rat(2, 5)}
GateOrigins == {<<0, 0>>, <<3, -2>>}
SmallMoves ==
    {<<Zero, Zero>>, <<Rat(1, 12500), Zero>>, <<Zero, Rat(-1, 12500)>>,
     <<Rat(1, 2000), Zero>>, <<Rat(1, 10), Rat(1, 10)>>}
UnitMoves ==
    {<<Zero, Zero>>, <<Rat(1, 5000), Zero>>, <<Zero, Rat(-1, 5000)>>,
     <<Rat(1, 2000), Zero>>, <<Rat(1, 10), Rat(1, 10)>>}
LongMoves == {<<Zero, Zero>>, <<Zero, One>>, <<Zero, FromInt(2)>>}

\* an edit: the parallelogram o, o + e1, o + e1 + e2, o + e2 scaled by k,
\* of which corner c is then moved by the displacement e
GateEdits ==
    [shape : GateShapes, k : SmallScales, o : GateOrigins, c : 1..4, e : SmallMoves]
      \cup [shape : GateShapes, k : {One}, o : GateOrigins, c : 1..4, e : UnitMoves]
      \cup [shape : {LongShape}, k : {One}, o : GateOrigins, c : 1..4, e : LongMoves]

\* the four corners an edit leaves
EditedCorners(ed) ==
    LET e1 == PScale(ed.k, RPoint(ed.shape[1]))
        e2 == PScale(ed.k, RPoint(ed.shape[2]))
        o == RPoint(ed.o)
        base == <<o, PAdd(o, e1), PAdd(PAdd(o, e1), e2), PAdd(o, e2)>>
    IN  [i \in 1..4 |-> IF i = ed.c THEN PAdd(base[i], ed.e) ELSE base[i]]

InitGate == InitIdle /\ pc = "edit"

\* syncImageFromPolygon hands the first four points of the edited ring to
\* isParallelogram
CheckCorners(ed) ==
    /\ pc = "edit"
    /\ call' = [op |-> "isParallelogram", edit |-> ed,
                corners |-> EditedCorners(ed),
                result |-> IsParallelogram(EditedCorners(ed))]
    /\ pc' = "checked"
    /\ UNCHANGED <<ui, engine, session>>

NextGate == \E ed \in GateEdits : CheckCorners(ed)

SpecGate == InitGate /\ [][NextGate]_vars

-----------------------------------------------------------------------------
(* The decomposition's caller: the solved matrix and the image size *)

\* solved matrices: Scenario A's, scales 2 and -3, the identity, a quarter
\* turn with a y flip, a quarter turn, a shear, a shear of 1 % without flip,
\* scales 200 and -1, a matrix with a = c = 0, and a turn by atan2(4, 3)
DecomposeMatrices ==
    {Matrix(One, Zero, FromInt(100), Zero, FromInt(-1), FromInt(100)),
     Matrix(FromInt(2), Zero, Zero, Zero, FromInt(-3), Zero),
     Matrix(One, Zero, Zero, Zero, One, Zero),
     Matrix(Zero, One, Zero, One, Zero, Zero),
     Matrix(Zero, FromInt(-1), Zero, One, Zero, Zero),
     Matrix(FromInt(3), Zero, Zero, FromInt(4), FromInt(-5), Zero),
     Matrix(One, Rat(400, 40001), Zero, Zero, Rat(39999, 40001), Zero),
     Matrix(FromInt(200), Zero, Zero, Zero, FromInt(-1), Zero),
     Matrix(Zero, Zero, Zero, Zero, FromInt(-1), One),
     Matrix(Rat(3, 5), Rat(-4, 5), One, Rat(4, 5), Rat(3, 5), Zero)}

\* img.naturalWidth, img.naturalHeight
DecomposeSizes == (1..4) \X (1..3)

InitDecompose == InitIdle /\ pc = "decompose"

\* decomposeAffineToGeoImageParams(affine, img.naturalWidth, img.naturalHeight)
Decompose(m, w, h) ==
    /\ pc = "decompose"
    /\ call' = [op |-> "decompose", m |-> m, w |-> w, h |-> h,
                result |-> DecomposeAffineToGeoImageParams(m, w, h)]
    /\ pc' = "decomposed"
    /\ UNCHANGED <<ui, engine, session>>

NextDecompose ==
    \E m \in DecomposeMatrices, wh \in DecomposeSizes : Decompose(m, wh[1], wh[2])

SpecDecompose == InitDecompose /\ [][NextDecompose]_vars

-----------------------------------------------------------------------------
(* The image overlay session: loads, footprint edits, clear *)

\* the files a caller loads: a 2 x 1 image and a 1 x 3 image
SessionImages ==
    {Image("a", 2, 1, <<255, 0, 0, 255, 0, 0, 255, 255>>),
     Image("b", 1, 3, <<255, 0, 0, 255, 0, 255, 0, 255, 0, 0, 255, 255>>)}

\* the matrices a caller loads with: the unit scale with a y flip, and a
\* matrix of determinant 0
SessionMatrices ==
    {Matrix(One, Zero, Zero, Zero, FromInt(-1), Zero),
     Matrix(One, One, Zero, One, One, Zero)}

\* rings of integer points: the footprint of the unit scale on the image, a
\* parallelogram of area zero, a quadrilateral that is no parallelogram, a
\* 7072 x 1 rectangle with one corner moved by 1, a pentagon whose first
\* four corners span a square, a triangle, and a ring of three points
UnitRing == <<<<0, 0>>, <<2, 0>>, <<2, -1>>, <<0, -1>>, <<0, 0>>>>
FlatRing == <<<<0, 0>>, <<1, 0>>, <<1, 0>>, <<0, 0>>, <<0, 0>>>>
KiteRing == <<<<0, 0>>, <<2, 0>>, <<2, 2>>, <<0, 1>>, <<0, 0>>>>
LongRing == <<<<0, 0>>, <<7072, 0>>, <<7072, 1>>, <<0, 2>>, <<0, 0>>>>
PentagonRing == <<<<0, 0>>, <<2, 0>>, <<2, -2>>, <<0, -2>>, <<-1, -1>>, <<0, 0>>>>
TriangleRing == <<<<0, 0>>, <<1, 0>>, <<0, 1>>, <<0, 0>>>>
ShortRing == <<<<0, 0>>, <<1, 0>>, <<0, 0>>>>
\* exact parallelograms: a sheared one, and a rectangle turned by a quarter
ShearRing == <<<<0, 0>>, <<2, 1>>, <<3, 3>>, <<1, 2>>, <<0, 0>>>>
TurnedRing == <<<<1, 1>>, <<1, 4>>, <<-1, 4>>, <<-1, 1>>, <<1, 1>>>>

\* the polygons handed to loadImageFromAffineParams, to
\* loadImageFromGCPParams and to syncImageFromPolygon
FootprintRings == {UnitRing}
LoadRings == {UnitRing, FlatRing, ShortRing}
EditedRings ==
    {UnitRing, FlatRing, KiteRing, LongRing, PentagonRing, TriangleRing,
     ShearRing, TurnedRing}

\* matrices whose footprints are loaded and synced unedited: the unit scale
\* with a y flip, a shear with a shift, a quarter turn with scales 2 and 3,
\* a turn with a shear, and scales 1/2 and 1/3
FootprintMatrices ==
    {Matrix(One, Zero, Zero, Zero, FromInt(-1), Zero),
     Matrix(One, One, FromInt(2), Zero, FromInt(-1), FromInt(3)),
     Matrix(Zero, FromInt(2), One, FromInt(3), Zero, FromInt(-1)),
     Matrix(FromInt(2), FromInt(-1), Zero, One, One, Zero),
     Matrix(Rat(1, 2), Zero, Zero, Zero, FromInt(-1), One),
     Matrix(One, Zero, Zero, Zero, Rat(-1, 3), Zero)}

\* the ring of createProxyPolygonFromAffine(m, W, H) as a ring of integer
\* points, and whether its points are integer points
Footprint(m, image) ==
    LET ring == CreateProxyPolygonFromAffine(m, image.w, image.h)
    IN  [i \in 1..5 |-> <<ring[i][1].n, ring[i][2].n>>]
HasIntegerFootprint(m, image) ==
    LET ring == CreateProxyPolygonFromAffine(m, image.w, image.h)
    IN  \A i \in 1..5 : ring[i][1].d = 1 /\ ring[i][2].d = 1

\* the loads of a matrix with its footprint
FootprintLoads ==
    {im \in SessionImages \X FootprintMatrices : HasIntegerFootprint(im[2], im[1])}
MatrixFootprints == {Footprint(im[2], im[1]) : im \in FootprintLoads}

\* the id of the layer / feature created by the load that was called n-th
Ref(n) == [id |-> n]

\* the correspondences start at the second point of the ring
CornerGCPsFromSecond(prefix, image, ring) ==
    <<GCP(<<prefix, 1>>, <<0, 0>>, ring[2]),
      GCP(<<prefix, 2>>, <<image.w, 0>>, ring[3]),
      GCP(<<prefix, 3>>, <<image.w, image.h>>, ring[4]),
      GCP(<<prefix, 4>>, <<0, image.h>>, ring[5])>>

\* the correspondences with the image's width and height exchanged
CornerGCPsTransposed(prefix, image, ring) ==
    <<GCP(<<prefix, 1>>, <<0, 0>>, ring[1]),
      GCP(<<prefix, 2>>, <<image.h, 0>>, ring[2]),
      GCP(<<prefix, 3>>, <<image.h, image.w>>, ring[3]),
      GCP(<<prefix, 4>>, <<0, image.w>>, ring[4])>>

\* the four correspondences "image corner -> ring corner" of a load
\* ("compat-1" ..) or a sync ("sync-1" ..)
CornerGCPs(prefix, image, ring) ==
    <<GCP(<<prefix, 1>>, <<0, 0>>, ring[1]),
      GCP(<<prefix, 2>>, <<image.w, 0>>, ring[2]),
      GCP(<<prefix, 3>>, <<image.w, image.h>>, ring[3]),
      GCP(<<prefix, 4>>, <<0, image.h>>, ring[4])>>

\* the layers and features clearImage leaves on the map / in the source
LayersCleared ==
    IF imageLayer = Null THEN layers ELSE {l \in layers : l.id # imageLayer.id}
FeaturesCleared ==
    IF proxyFeature = Null THEN features
    ELSE {f \in features : f.id # proxyFeature.id}

\* solveAffineTransform on the corner correspondences of each image and ring
SolvedFromCorners ==
    [image \in SessionImages,
     ring \in (LoadRings \cup EditedRings \cup MatrixFootprints) \ {ShortRing} |->
        SolveAffineTransform(CornerGCPs("corner", image, ring))]

\* createAffineCanvasSource on the matrix solved from the corners
SourceFromCorners ==
    [image \in SessionImages,
     ring \in (LoadRings \cup EditedRings \cup MatrixFootprints) \ {ShortRing} |->
        IF SolvedFromCorners[image, ring].err # "none"
        THEN [err |-> SolvedFromCorners[image, ring].err, source |-> Null]
        ELSE CreateAffineCanvasSource(image, SolvedFromCorners[image, ring].m, ring)]

InitSession == InitIdle /\ pc = "session"

\* loadImageFromAffineParams up to "await createImageElement(file)": a
\* displayed image is cleared, then the load is suspended
LoadImageFromAffineParams(image, m, ring) ==
    /\ pc = "session"
    /\ submitted < MaxLoads
    /\ submitted' = submitted + 1
    /\ loads' = loads \cup {[req |-> submitted + 1, kind |-> "affine",
                             image |-> image, m |-> m, ring |-> ring]}
    /\ IF imageLayer # Null
       THEN /\ layers' = LayersCleared
            /\ features' = FeaturesCleared
            /\ imageLayer' = Null
            /\ proxyFeature' = Null
            /\ originalImage' = Null
            /\ currentAffine' = Null
       ELSE UNCHANGED <<layers, features, imageLayer, proxyFeature,
                        originalImage, currentAffine>>
    /\ call' = [op |-> "loadImageFromAffineParams", req |-> submitted + 1,
                result |-> "suspended"]
    /\ UNCHANGED <<ui, engine, pc>>

\* loadImageFromGCPParams up to "await createImageElement(file)": a ring of
\* fewer than 4 points is refused, otherwise the load is suspended
LoadImageFromGCPParams(image, ring) ==
    /\ pc = "session"
    /\ submitted < MaxLoads
    /\ submitted' = submitted + 1
    /\ IF Len(ring) < 4
       THEN /\ loads' = loads
            /\ call' = [op |-> "loadImageFromGCPParams", req |-> submitted + 1,
                        result |-> "InvalidPolygon"]
       ELSE /\ loads' = loads \cup {[req |-> submitted + 1, kind |-> "gcp",
                                     image |-> image, m |-> NoMatrix,
                                     ring |-> ring]}
            /\ call' = [op |-> "loadImageFromGCPParams", req |-> submitted + 1,
                        result |-> "suspended"]
    /\ UNCHANGED <<ui, engine, pc, imageLayer, proxyFeature, originalImage,
                   currentAffine, layers, features>>

\* the file of a suspended load cannot be decoded: createImageElement rejects
DecodeFails(l) ==
    /\ pc = "session"
    /\ l \in loads
    /\ loads' = loads \ {l}
    /\ call' = [op |-> "resume", req |-> l.req, result |-> "DecodeError"]
    /\ UNCHANGED <<ui, engine, pc, imageLayer, proxyFeature, originalImage,
                   currentAffine, layers, features, submitted>>

\* the rest of loadImageFromAffineParams once the image is decoded
ResumeAffineLoad(l) ==
    /\ pc = "session"
    /\ l \in loads
    /\ l.kind = "affine"
    /\ loads' = loads \ {l}
    /\ LET src == CreateAffineCanvasSource(l.image, l.m, l.ring)
       IN  IF src.err # "none"
           THEN /\ call' = [op |-> "resume", req |-> l.req, result |-> src.err]
                /\ UNCHANGED <<imageLayer, proxyFeature, originalImage,
                               currentAffine, layers, features>>
           ELSE /\ layers' = layers \cup {[id |-> l.req, source |-> src.source]}
                /\ imageLayer' = Ref(l.req)
                /\ proxyFeature' = Ref(l.req)
                /\ features' = features \cup {[id |-> l.req, ring |-> l.ring]}
                /\ originalImage' = l.image
                /\ currentAffine' = l.m
                /\ call' = [op |-> "resume", req |-> l.req, result |-> "ok"]
    /\ UNCHANGED <<ui, engine, pc, submitted>>

\* the rest of loadImageFromGCPParams once the image is decoded: the matrix
\* is solved from the ring, a displayed image is cleared, the new one is
\* built; an error of invertAffine is thrown after the clear
ResumeGCPLoad(l) ==
    /\ pc = "session"
    /\ l \in loads
    /\ l.kind = "gcp"
    /\ loads' = loads \ {l}
    /\ LET solved == SolvedFromCorners[l.image, l.ring]
       IN  IF solved.err # "none"
           THEN /\ call' = [op |-> "resume", req |-> l.req, result |-> solved.err]
                /\ UNCHANGED <<imageLayer, proxyFeature, originalImage,
                               currentAffine, layers, features>>
           ELSE LET src == SourceFromCorners[l.image, l.ring]
                    kept == IF imageLayer # Null THEN LayersCleared ELSE layers
                    left == IF imageLayer # Null THEN FeaturesCleared ELSE features
                IN  IF src.err # "none"
                    THEN /\ layers' = kept
                         /\ features' = left
                         /\ IF imageLayer # Null
                            THEN /\ imageLayer' = Null
                                 /\ proxyFeature' = Null
                                 /\ originalImage' = Null
                                 /\ currentAffine' = Null
                            ELSE UNCHANGED <<imageLayer, proxyFeature,
                                             originalImage, currentAffine>>
                         /\ call' = [op |-> "resume", req |-> l.req,
                                     result |-> src.err]
                    ELSE /\ layers' = kept \cup {[id |-> l.req, source |-> src.source]}
                         /\ imageLayer' = Ref(l.req)
                         /\ proxyFeature' = Ref(l.req)
                         /\ features' = left \cup {[id |-> l.req, ring |-> l.ring]}
                         /\ originalImage' = l.image
                         /\ currentAffine' = solved.m
                         /\ call' = [op |-> "resume", req |-> l.req, result |-> "ok"]
    /\ UNCHANGED <<ui, engine, pc, submitted>>

\* the matrix is stored before the canvas source is built
SyncImageFromPolygonTorn(ring) ==
    /\ pc = "session"
    /\ IF originalImage = Null \/ imageLayer = Null
       THEN /\ call' = [op |-> "syncImageFromPolygon", ring |-> ring,
                        result |-> "absent"]
            /\ UNCHANGED <<layers, currentAffine>>
       ELSE IF Len(ring) < 5
       THEN /\ call' = [op |-> "syncImageFromPolygon", ring |-> ring,
                        result |-> "short"]
            /\ UNCHANGED <<layers, currentAffine>>
       ELSE IF ~IsParallelogram([i \in 1..4 |-> RPoint(ring[i])])
       THEN /\ call' = [op |-> "syncImageFromPolygon", ring |-> ring,
                        result |-> "nonParallelogram"]
            /\ UNCHANGED <<layers, currentAffine>>
       ELSE LET solved == SolvedFromCorners[originalImage, ring]
                src == SourceFromCorners[originalImage, ring]
            IN  IF solved.err # "none"
                THEN /\ call' = [op |-> "syncImageFromPolygon", ring |-> ring,
                                 result |-> solved.err]
                     /\ UNCHANGED <<layers, currentAffine>>
                ELSE IF src.err # "none"
                THEN /\ call' = [op |-> "syncImageFromPolygon", ring |-> ring,
                                 result |-> src.err]
                     /\ currentAffine' = solved.m
                     /\ UNCHANGED layers
                ELSE /\ layers' = {IF l.id = imageLayer.id
                                   THEN [l EXCEPT !.source = src.source]
                                   ELSE l : l \in layers}
                     /\ currentAffine' = solved.m
                     /\ call' = [op |-> "syncImageFromPolygon", ring |-> ring,
                                 result |-> "ok"]
    /\ UNCHANGED <<ui, engine, pc, imageLayer, proxyFeature, originalImage, features,
                   loads, submitted>>

\* syncImageFromPolygon(polygon), ring the outer ring of the edited polygon
SyncImageFromPolygon(ring) ==
    /\ pc = "session"
    /\ IF originalImage = Null \/ imageLayer = Null
       THEN /\ call' = [op |-> "syncImageFromPolygon", ring |-> ring,
                        result |-> "absent"]
            /\ UNCHANGED <<layers, currentAffine>>
       ELSE IF Len(ring) < 5
       THEN /\ call' = [op |-> "syncImageFromPolygon", ring |-> ring,
                        result |-> "short"]
            /\ UNCHANGED <<layers, currentAffine>>
       ELSE IF ~IsParallelogram([i \in 1..4 |-> RPoint(ring[i])])
       THEN /\ call' = [op |-> "syncImageFromPolygon", ring |-> ring,
                        result |-> "nonParallelogram"]
            /\ UNCHANGED <<layers, currentAffine>>
       ELSE LET solved == SolvedFromCorners[originalImage, ring]
                src == SourceFromCorners[originalImage, ring]
            IN  IF src.err # "none"
                THEN /\ call' = [op |-> "syncImageFromPolygon", ring |-> ring,
                                 result |-> src.err]
                     /\ UNCHANGED <<layers, currentAffine>>
                ELSE /\ layers' = {IF l.id = imageLayer.id
                                   THEN [l EXCEPT !.source = src.source]
                                   ELSE l : l \in layers}
                     /\ currentAffine' = solved.m
                     /\ call' = [op |-> "syncImageFromPolygon", ring |-> ring,
                                 result |-> "ok"]
    /\ UNCHANGED <<ui, engine, pc, imageLayer, proxyFeature, originalImage, features,
                   loads, submitted>>

\* clearImage that leaves the matrix in place
ClearImageKeepsMatrix ==
    /\ pc = "session"
    /\ layers' = LayersCleared
    /\ features' = FeaturesCleared
    /\ imageLayer' = Null
    /\ proxyFeature' = Null
    /\ originalImage' = Null
    /\ call' = [op |-> "clearImage"]
    /\ UNCHANGED <<ui, engine, pc, loads, submitted, currentAffine>>

\* clearImage(map, vectorSource)
ClearImage ==
    /\ pc = "session"
    /\ layers' = LayersCleared
    /\ features' = FeaturesCleared
    /\ imageLayer' = Null
    /\ proxyFeature' = Null
    /\ originalImage' = Null
    /\ currentAffine' = Null
    /\ call' = [op |-> "clearImage"]
    /\ UNCHANGED <<ui, engine, pc, loads, submitted>>

NextSession ==
    \/ \E image \in SessionImages, m \in SessionMatrices, ring \in FootprintRings :
          LoadImageFromAffineParams(image, m, ring)
    \/ \E image \in SessionImages, ring \in LoadRings :
          LoadImageFromGCPParams(image, ring)
    \/ \E l \in loads : DecodeFails(l)
    \/ \E l \in loads : ResumeAffineLoad(l)
    \/ \E l \in loads : ResumeGCPLoad(l)
    \/ \E ring \in EditedRings : SyncImageFromPolygon(ring)
    \/ ClearImage

SpecSession == InitSession /\ [][NextSession]_vars

\* the session when the caller loads a matrix with its own footprint
\* (createProxyPolygonFromAffine) and the polygon is synced unedited
NextFootprint ==
    \/ \E im \in FootprintLoads :
          LoadImageFromAffineParams(im[1], im[2], Footprint(im[2], im[1]))
    \/ \E l \in loads : ResumeAffineLoad(l)
    \/ \E f \in features : SyncImageFromPolygon(f.ring)
    \/ ClearImage

SpecFootprint == InitSession /\ [][NextFootprint]_vars

-----------------------------------------------------------------------------
(* The warp's callers: a canvas source is built and asked for a canvas *)

\* a 2 x 2 image of one colour per pixel: red, green, blue, translucent white
QuadrantImage ==
    Image("q", 2, 2, <<255, 0, 0, 255,  0, 255, 0, 255,
                       0, 0, 255, 255,  255, 255, 255, 128>>)

\* the matrices of the warp: scale 1 with a y flip onto the middle of the
\* map square 0..4, the same shifted by half a pixel, scale 2, a quarter
\* turn, a shear, and scale 1 onto the corner of the square
WarpMatrices ==
    {Matrix(One, Zero, One, Zero, FromInt(-1), FromInt(3)),
     Matrix(One, Zero, Rat(1, 2), Zero, FromInt(-1), Rat(5, 2)),
     Matrix(FromInt(2), Zero, Zero, Zero, FromInt(-2), FromInt(4)),
     Matrix(Zero, One, One, One, Zero, One),
     Matrix(One, One, Zero, Zero, FromInt(-1), FromInt(3)),
     Matrix(One, Zero, FromInt(3), Zero, FromInt(-1), One)}

\* the clip polygons: the footprint of the first matrix, the whole map
\* square, and a triangle
WarpRings ==
    {<<<<1, 3>>, <<3, 3>>, <<3, 1>>, <<1, 1>>, <<1, 3>>>>,
     <<<<0, 0>>, <<4, 0>>, <<4, 4>>, <<0, 4>>, <<0, 0>>>>,
     <<<<0, 0>>, <<4, 0>>, <<0, 4>>, <<0, 0>>>>}

\* the extents and canvas sizes the map asks for
WarpExtents ==
    {<<Zero, Zero, FromInt(4), FromInt(4)>>,
     <<One, One, FromInt(3), FromInt(3)>>,
     <<FromInt(-1), Zero, FromInt(3), FromInt(2)>>}
WarpSizes == {<<FromInt(4), FromInt(4)>>, <<Rat(5, 2), FromInt(2)>>}

InitWarp == InitIdle /\ pc = "warp"

\* createAffineCanvasSource(image, m, polygon)
BuildSource(m, ring) ==
    /\ pc = "warp"
    /\ call' = [op |-> "createAffineCanvasSource",
                result |-> CreateAffineCanvasSource(QuadrantImage, m, ring)]
    /\ pc' = "built"
    /\ UNCHANGED <<ui, engine, session>>

\* the map renders: canvasFunction(extent, resolution, pixelRatio, size)
Render(extent, size) ==
    /\ pc = "built"
    /\ call.result.err = "none"
    /\ call' = [op |-> "canvasFunction", source |-> call.result.source,
                extent |-> extent,
                result |-> CanvasFunction(call.result.source, extent, size)]
    /\ pc' = "rendered"
    /\ UNCHANGED <<ui, engine, session>>

NextWarp ==
    \/ \E m \in WarpMatrices, ring \in WarpRings : BuildSource(m, ring)
    \/ \E extent \in WarpExtents, size \in WarpSizes : Render(extent, size)

SpecWarp == InitWarp /\ [][NextWarp]_vars

-----------------------------------------------------------------------------
(* The sampler's callers: an image is sampled at any coordinate *)

\* images of 2 x 2, 2 x 1, 1 x 3 and 1 x 1 pixels
SampleImages ==
    {QuadrantImage} \cup SessionImages
        \cup {Image("c", 1, 1, <<10, 20, 30, 40>>)}

\* coordinates left of, inside, on the last pixel of, and beyond the images
SampleCoords ==
    {FromInt(-1), Rat(-1, 2), Zero, Rat(1, 4), Rat(1, 2), One, Rat(3, 2),
     FromInt(2), Rat(5, 2), FromInt(3), FromInt(7)}

InitSample == InitIdle /\ pc = "sample"

\* sampleBilinear(srcData, image.naturalWidth, image.naturalHeight, u, v)
Sample(image, u, v) ==
    /\ pc = "sample"
    /\ call' = [op |-> "sampleBilinear", image |-> image, u |-> u, v |-> v,
                reads |-> SampleIndices(image.w, image.h, u, v),
                result |-> SampleBilinear(image.data, image.w, image.h, u, v)]
    /\ pc' = "sampled"
    /\ UNCHANGED <<ui, engine, session>>

NextSample ==
    \E image \in SampleImages, u \in SampleCoords, v \in SampleCoords :
        Sample(image, u, v)

SpecSample == InitSample /\ [][NextSample]_vars

-----------------------------------------------------------------------------
(* The GCP picker: canvas clicks, map clicks, cancel, remove, clear *)

\* the function handleMapClick, as a non-null value of mapClickHandler
HandleMapClick == [fn |-> "handleMapClick"]

\* the preview image, the pixels a canvas click resolves to (the last one
\* lies outside the image), and the coordinates of a map click
PickerImages == {image \in SessionImages : image.name = "a"}
ClickedPixels == {<<0, 0>>, <<1, 0>>, <<2, 0>>}
ClickedCoordinates == {<<0, 0>>, <<1, 0>>}

\* setState that leaves handleMapClick registered on the map
SetStateKeepsListener(p, newState) ==
    LET entered == [p EXCEPT !.state = newState]
        on == IF newState = "awaiting_map" /\ entered.mapClickHandler = Null
              THEN [entered EXCEPT !.mapClickHandler = HandleMapClick,
                                   !.listeners = @ + 1]
              ELSE entered
    IN  IF newState # "awaiting_map" /\ on.mapClickHandler # Null
        THEN [on EXCEPT !.mapClickHandler = Null]
        ELSE on

\* setState(newState) on the picker p; mapRef is set by initGCPPicker
SetState(p, newState) ==
    LET entered == [p EXCEPT !.state = newState]
        on == IF newState = "awaiting_map" /\ entered.mapClickHandler = Null
              THEN [entered EXCEPT !.mapClickHandler = HandleMapClick,
                                   !.listeners = @ + 1]
              ELSE entered
    IN  IF newState # "awaiting_map" /\ on.mapClickHandler # Null
        THEN [on EXCEPT !.mapClickHandler = Null,
                        !.listeners = IF @ > 0 THEN @ - 1 ELSE 0]
        ELSE on

InitPicker == InitIdle /\ pc = "picker"

\* updateImagePreview(image): the file input has decoded an image
UpdateImagePreview(image) ==
    /\ pc = "picker"
    /\ picker' = [picker EXCEPT !.currentImage = image]
    /\ call' = [op |-> "updateImagePreview"]
    /\ UNCHANGED <<engine, session, toolbar, pc>>

\* startGCPPicking()
StartGCPPicking ==
    /\ pc = "picker"
    /\ picker' = IF picker.currentImage = Null THEN picker
                 ELSE SetState(picker, "awaiting_pixel")
    /\ call' = [op |-> "startGCPPicking"]
    /\ UNCHANGED <<engine, session, toolbar, pc>>

\* handleCanvasMouseDown with the left button
CanvasMouseDown ==
    /\ pc = "picker"
    /\ picker' = IF picker.currentImage = Null THEN picker
                 ELSE [picker EXCEPT !.isDraggingCanvas = TRUE, !.hasDragged = FALSE]
    /\ call' = [op |-> "canvasMouseDown"]
    /\ UNCHANGED <<engine, session, toolbar, pc>>

\* handleCanvasMouseMove by a non-zero distance, of DRAG_THRESHOLD_PX or
\* more (far) or less
CanvasMouseMove(far) ==
    /\ pc = "picker"
    /\ picker' = IF ~picker.isDraggingCanvas \/ picker.currentImage = Null
                 THEN picker
                 ELSE IF ~picker.hasDragged /\ far
                 THEN [picker EXCEPT !.hasDragged = TRUE]
                 ELSE picker
    /\ call' = [op |-> "canvasMouseMove"]
    /\ UNCHANGED <<engine, session, toolbar, pc>>

\* handleCanvasMouseUp
CanvasMouseUp ==
    /\ pc = "picker"
    /\ picker' = IF ~picker.isDraggingCanvas THEN picker
                 ELSE [picker EXCEPT !.isDraggingCanvas = FALSE,
                                     !.suppressNextClick = @ \/ picker.hasDragged,
                                     !.hasDragged = FALSE]
    /\ call' = [op |-> "canvasMouseUp"]
    /\ UNCHANGED <<engine, session, toolbar, pc>>

\* handleCanvasClick for a click that resolves to the pixel px
HandleCanvasClick(px) ==
    /\ pc = "picker"
    /\ picker' =
         IF picker.suppressNextClick
         THEN [picker EXCEPT !.suppressNextClick = FALSE]
         ELSE IF picker.state # "awaiting_pixel" \/ picker.currentImage = Null
         THEN picker
         ELSE IF \/ px[1] < 0 \/ px[1] >= picker.currentImage.w
                 \/ px[2] < 0 \/ px[2] >= picker.currentImage.h
         THEN picker
         ELSE SetState([picker EXCEPT !.pendingPixel = px], "awaiting_map")
    /\ call' = [op |-> "canvasClick", pixel |-> px]
    /\ UNCHANGED <<engine, session, toolbar, pc>>

\* the map fires 'singleclick' at the coordinate: every registration of
\* handleMapClick runs; once is what the picker allows for
MapSingleClick(coordinate) ==
    /\ pc = "picker"
    /\ picker.listeners > 0
    /\ picker.gcpCounter < MaxPicks
    /\ picker' =
         IF picker.state # "awaiting_map" \/ picker.pendingPixel = Null
         THEN picker
         ELSE SetState(
                [picker EXCEPT
                    !.gcpCounter = @ + 1,
                    !.gcpList = Append(@, GCP(<<"gcp", picker.gcpCounter + 1>>,
                                              picker.pendingPixel, coordinate)),
                    !.pendingPixel = Null],
                "idle")
    /\ call' = [op |-> "mapClick", coordinate |-> coordinate]
    /\ UNCHANGED <<engine, session, toolbar, pc>>

\* cancelGCPPicking()
CancelGCPPicking ==
    /\ pc = "picker"
    /\ picker' = SetState([picker EXCEPT !.pendingPixel = Null], "idle")
    /\ call' = [op |-> "cancelGCPPicking"]
    /\ UNCHANGED <<engine, session, toolbar, pc>>

\* removeGCP(index), index counted from 0
RemoveGCP(index) ==
    /\ pc = "picker"
    /\ picker' =
         IF index < 0 \/ index >= Len(picker.gcpList) THEN picker
         ELSE [picker EXCEPT !.gcpList = SubSeq(@, 1, index)
                                           \o SubSeq(@, index + 2, Len(@))]
    /\ call' = [op |-> "removeGCP", index |-> index]
    /\ UNCHANGED <<engine, session, toolbar, pc>>

\* clearGCPs()
ClearGCPs ==
    /\ pc = "picker"
    /\ picker' = SetState([picker EXCEPT !.gcpList = <<>>, !.gcpCounter = 0,
                                         !.pendingPixel = Null], "idle")
    /\ call' = [op |-> "clearGCPs"]
    /\ UNCHANGED <<engine, session, toolbar, pc>>

NextPicker ==
    \/ \E image \in PickerImages : UpdateImagePreview(image)
    \/ StartGCPPicking
    \/ CanvasMouseDown
    \/ \E far \in BOOLEAN : CanvasMouseMove(far)
    \/ CanvasMouseUp
    \/ \E px \in ClickedPixels : HandleCanvasClick(px)
    \/ \E coordinate \in ClickedCoordinates : MapSingleClick(coordinate)
    \/ CancelGCPPicking
    \/ \E index \in 0..MaxPicks : RemoveGCP(index)
    \/ ClearGCPs

SpecPicker == InitPicker /\ [][NextPicker]_vars

-----------------------------------------------------------------------------
(* The toolbar: draw, transform, rotate, scale and clear-all buttons *)

\* the edit controllers, the geometry types of the draw buttons, and the
\* ids of the buttons
Controllers == {"transform", "rotate", "scale"}
DrawTypes == {"LineString", "Polygon"}
ButtonOf(type) == IF type = "LineString" THEN "drawLineString" ELSE "drawPolygon"

\* stopDrawing that leaves the interaction in place
StopDrawingKept(t) == t

\* DrawController.stopDrawing()
StopDrawing(t) ==
    IF t.currentDraw # Null
    THEN [t EXCEPT !.currentDraw = Null, !.currentMode = Null]
    ELSE t

\* DrawController.startDrawing(type)
StartDrawing(t, type) ==
    [StopDrawing(t) EXCEPT !.currentDraw = [draw |-> type],
                           !.currentMode = [mode |-> type]]

\* activate(), deactivate() and toggle() of the controller c
Activate(t, c) ==
    IF t.isActive[c] THEN t ELSE [t EXCEPT !.isActive[c] = TRUE]
Deactivate(t, c) ==
    IF ~t.isActive[c] THEN t ELSE [t EXCEPT !.isActive[c] = FALSE]
Toggle(t, c) ==
    IF t.isActive[c] THEN Deactivate(t, c) ELSE Activate(t, c)

\* clearActiveButtons() and deactivateAllEditModes() of main.ts
ClearActiveButtons(t) == [t EXCEPT !.active = {}]
DeactivateAllEditModes(t) ==
    Deactivate(Deactivate(Deactivate(t, "transform"), "rotate"), "scale")

InitToolbar == InitIdle /\ pc = "toolbar"

\* click on the LineString or Polygon button
ClickDraw(type) ==
    /\ pc = "toolbar"
    /\ LET t == DeactivateAllEditModes(ClearActiveButtons(toolbar))
       IN  toolbar' =
             IF t.currentMode = [mode |-> type]
             THEN StopDrawing(t)
             ELSE [StartDrawing(t, type) EXCEPT !.active = @ \cup {ButtonOf(type)}]
    /\ call' = [op |-> "click", button |-> ButtonOf(type)]
    /\ UNCHANGED <<engine, session, picker, pc>>

\* click on the transform, rotate or scale button c
ClickEdit(c) ==
    /\ pc = "toolbar"
    /\ LET stopped == StopDrawing(ClearActiveButtons(toolbar))
           others == IF c = "transform"
                     THEN Deactivate(Deactivate(stopped, "rotate"), "scale")
                     ELSE IF c = "rotate"
                     THEN Deactivate(Deactivate(stopped, "transform"), "scale")
                     ELSE Deactivate(Deactivate(stopped, "transform"), "rotate")
           toggled == Toggle(others, c)
       IN  toolbar' = IF toggled.isActive[c]
                      THEN [toggled EXCEPT !.active = @ \cup {c}]
                      ELSE toggled
    /\ call' = [op |-> "click", button |-> c]
    /\ UNCHANGED <<engine, session, picker, pc>>

\* click on the clear-all button; confirmed is the answer to confirm()
ClickClearAll(confirmed) ==
    /\ pc = "toolbar"
    /\ toolbar' =
         IF confirmed
         THEN [DeactivateAllEditModes(StopDrawing(ClearActiveButtons(toolbar)))
                 EXCEPT !.drawn = <<>>]
         ELSE toolbar
    /\ call' = [op |-> "click", button |-> "clearAll"]
    /\ UNCHANGED <<engine, session, picker, pc>>

\* the user completes a geometry with the Draw interaction on the map
DrawEnd ==
    /\ pc = "toolbar"
    /\ toolbar.currentDraw # Null
    /\ Len(toolbar.drawn) < MaxDrawn
    /\ toolbar' = [toolbar EXCEPT !.drawn = Append(@, toolbar.currentDraw.draw)]
    /\ call' = [op |-> "drawend"]
    /\ UNCHANGED <<engine, session, picker, pc>>

NextToolbar ==
    \/ \E type \in DrawTypes : ClickDraw(type)
    \/ \E c \in Controllers : ClickEdit(c)
    \/ \E confirmed \in BOOLEAN : ClickClearAll(confirmed)
    \/ DrawEnd

SpecToolbar == InitToolbar /\ [][NextToolbar]_vars

-----------------------------------------------------------------------------
(* Vocabulary of the properties *)

\* solve has run on gcps and its outcome is in affine / err
Solved == origin = "solve"

\* the pixel points of gs lie on one line (or coincide): every triple spans
\* a triangle of area zero
PixelsCollinear(gs) ==
    \A i, j, k \in 1..Len(gs) :
        (gs[j].pixel[1] - gs[i].pixel[1]) * (gs[k].pixel[2] - gs[i].pixel[2])
      = (gs[k].pixel[1] - gs[i].pixel[1]) * (gs[j].pixel[2] - gs[i].pixel[2])

PixelSet(gs) == {gs[i].pixel : i \in 1..Len(gs)}
MapSet(gs) == {gs[i].map : i \in 1..Len(gs)}

\* squared distance of two points of rationals
DistSq(p, q) ==
    LET dx == RSub(p[1], q[1])
        dy == RSub(p[2], q[2])
    IN  RAdd(RMul(dx, dx), RMul(dy, dy))

-----------------------------------------------------------------------------
(* Properties of solveAffineTransform *)

\* C1: for exactly 3 correspondences whose pixel points are not collinear,
\* solve returns a matrix M with apply(M, pixel_i) = map_i for each i.
ExactThreePointFit ==
    (Solved /\ Len(gcps) = 3 /\ ~PixelsCollinear(gcps)) =>
        /\ err = "none"
        /\ affine # NoMatrix
        /\ \A i \in 1..3 :
              ApplyAffine(affine, FromInt(gcps[i].pixel[1]), FromInt(gcps[i].pixel[2]))
                = RPoint(gcps[i].map)

\* a 3-point fit with a coefficient that is not an integer has been solved
ExactThreePointFitReached ==
    /\ Solved /\ Len(gcps) = 3 /\ ~PixelsCollinear(gcps)
    /\ err = "none"
    /\ affine.a.d = 2
    /\ Cardinality(MapSet(gcps)) = 3

\* C2: solve on 3 or more correspondences either fails or returns a matrix
\* with |a*d - b*c| >= 1e-12.
SolveNeverNearSingular ==
    (Solved /\ Len(gcps) >= 3) =>
        \/ err # "none"
        \/ ~AbsBelowEps(Det2(affine))

\* C5 (Scenario A): the three correspondences (0,0)->(100,100),
\* (10,0)->(110,100), (0,10)->(100,90) solve to a = 1, b = 0, tx = 100,
\* c = 0, d = -1, ty = 100, and apply(M, (10,10)) = (110, 90).
ScenarioASolution ==
    (Solved /\ gcps = ScenarioA) =>
        /\ affine = Matrix(One, Zero, FromInt(100), Zero, FromInt(-1), FromInt(100))
        /\ ApplyAffine(affine, FromInt(10), FromInt(10)) = <<FromInt(110), FromInt(90)>>

\* Scenario A has been solved
ScenarioASolved == Solved /\ gcps = ScenarioA /\ err = "none"

\* C6: whenever the pixel points of n >= 3 correspondences are all collinear
\* or all coincide, solve fails with DegenerateGeometry and returns no matrix.
DegenerateRejected ==
    (Solved /\ Len(gcps) >= 3 /\ PixelsCollinear(gcps)) =>
        /\ err = "DegenerateGeometry"
        /\ affine = NoMatrix

\* the least-squares branch has rejected three distinct collinear pixel points
DegenerateRejectedReached ==
    /\ Solved /\ Len(gcps) >= 4 /\ PixelsCollinear(gcps)
    /\ Cardinality(PixelSet(gcps)) = 3
    /\ err = "DegenerateGeometry"

\* C7: solve fails with InsufficientPoints exactly for the lists of length
\* 0, 1 or 2, and returns no matrix for them.
InsufficientIffShort ==
    Solved =>
        /\ (err = "InsufficientPoints") <=> (Len(gcps) < 3)
        /\ (Len(gcps) < 3) => (affine = NoMatrix)

\* solve has refused a list of two correspondences
InsufficientReached ==
    Solved /\ Len(gcps) = 2 /\ err = "InsufficientPoints"

-----------------------------------------------------------------------------
(* Properties of computeAffineFitReport *)

\* the six coefficients of a matrix and the perturbations added to one of them
CoefNames == {"a", "b", "tx", "c", "d", "ty"}
Deltas == {Rat(1, 8), Rat(-1, 8), One, FromInt(-1)}

\* m with delta added to its coefficient k
Perturbed(m, k, delta) == [m EXCEPT ![k] = RAdd(m[k], delta)]

\* C4: for 4 or more correspondences that solve accepts, the mean squared
\* residual (the square of the RMSE evaluate reports) of the solved matrix
\* is at most that of the matrix with any perturbation added to any one of
\* its six coefficients.
LeastSquaresOptimal ==
    (pc = "evaluated" /\ Solved /\ Len(gcps) >= 4) =>
        \A k \in CoefNames, delta \in Deltas :
            RLe(Squared(report.rmseMeters),
                Squared(ComputeAffineFitReport(gcps, Perturbed(affine, k, delta)).rmseMeters))

\* an over-determined fit with no exact solution has been solved and evaluated
LeastSquaresReached ==
    /\ pc = "evaluated" /\ Solved /\ Len(gcps) >= 4
    /\ report.rmseMeters # Sqrt(Zero)

\* C9: evaluate on a list of length <= 3 returns Unverifiable with rmse and
\* maxError null and no residual, whatever the points and the matrix.
UnverifiableUpToThree ==
    (pc = "evaluated" /\ Len(gcps) <= 3) =>
        report = [fitStatus |-> "UNVERIFIABLE_3PT", rmseMeters |-> Null,
                  maxErrorMeters |-> Null, residuals |-> <<>>]

\* three correspondences that a caller's matrix does not fit were evaluated
UnverifiableReached ==
    /\ pc = "evaluated" /\ Len(gcps) = 3 /\ origin = "caller"
    /\ \E i \in 1..3 :
          ApplyAffine(affine, FromInt(gcps[i].pixel[1]), FromInt(gcps[i].pixel[2]))
            # RPoint(gcps[i].map)

\* C10: evaluate on a list of length >= 4 returns Verified with one residual
\* per GCP, in input order and with that GCP's id, whose error is the
\* distance between apply(affine, pixel) and the map point; rmse squared is
\* the mean of the squared errors and maxError is the largest error.
VerifiedReport ==
    (pc = "evaluated" /\ Len(gcps) >= 4) =>
        LET n == Len(gcps)
            rs == report.residuals
            ErrSq(i) == DistSq(ApplyAffine(affine, FromInt(gcps[i].pixel[1]),
                                                   FromInt(gcps[i].pixel[2])),
                               RPoint(gcps[i].map))
        IN  /\ report.fitStatus = "VERIFIED"
            /\ Len(rs) = n
            /\ \A i \in 1..n :
                  /\ rs[i].id = gcps[i].id
                  /\ rs[i].observed = gcps[i].map
                  /\ Squared(rs[i].errorMeters) = ErrSq(i)
            /\ RMul(Squared(report.rmseMeters), FromInt(n)) = SumSquares(rs, n)
            /\ \A i \in 1..n : RLe(ErrSq(i), Squared(report.maxErrorMeters))
            /\ \E i \in 1..n : ErrSq(i) = Squared(report.maxErrorMeters)

\* four or more correspondences with unequal errors were evaluated
VerifiedReached ==
    /\ pc = "evaluated" /\ Len(gcps) >= 4 /\ origin = "caller"
    /\ report.maxErrorMeters # report.rmseMeters
    /\ \E i \in 1..Len(gcps) : report.residuals[i].errorMeters = Sqrt(Zero)

-----------------------------------------------------------------------------
(* Properties of invertAffine *)

\* invert has run on affine and its outcome is in inverse / err
Inverted == pc \in {"inverted", "mapped", "back"}

\* C3: for every matrix M that invert accepts, invert(M) is
\* 1/det * [[d,-b],[-c,a]] with translation -inv*(tx,ty), and for every
\* pixel (u,v), apply(invert(M), apply(M, (u,v))) = (u,v).
RoundTrip ==
    /\ (Inverted /\ inverse # NoMatrix) =>
          LET det == Det2(affine)
          IN  /\ RMul(inverse.a, det) = affine.d
              /\ RMul(inverse.b, det) = RNeg(affine.b)
              /\ RMul(inverse.c, det) = RNeg(affine.c)
              /\ RMul(inverse.d, det) = affine.a
              /\ ApplyAffine(inverse, affine.tx, affine.ty) = <<Zero, Zero>>
    /\ (pc = "back") => (back = pixel)

\* a pixel off the origin went through a matrix with a fractional inverse
\* and a translation, and back
RoundTripReached ==
    /\ pc = "back"
    /\ inverse.a.d > 1
    /\ affine.tx # Zero
    /\ pixel # <<Zero, Zero>>
    /\ mapped # pixel

\* C8: invert fails with NonInvertible exactly when |a*d - b*c| < 1e-12 and
\* returns a matrix for every other input.
InvertFailsIffSingular ==
    Inverted =>
        LET det == RSub(RMul(affine.a, affine.d), RMul(affine.b, affine.c))
            \* |det| < 10^-12, as |det| < 10^-6 and |det| * 10^6 < 10^-6
            small == /\ RLt(RAbs(det), [n |-> 1, d |-> 1000000])
                     /\ RLt(RMul(RAbs(det), FromInt(1000000)), [n |-> 1, d |-> 1000000])
        IN  /\ small <=> (err = "NonInvertible")
            /\ small <=> (inverse = NoMatrix)
            /\ ~small => (err = "none")

\* invert has refused a singular matrix that is not the zero matrix
InvertRefusedReached ==
    /\ pc = "inverted" /\ err = "NonInvertible"
    /\ affine.a # Zero /\ affine.b # Zero


-----------------------------------------------------------------------------
(* Properties of validateGCPs *)

Validated == pc = "validated"

\* how many times the error e is itemized in the validation
Itemized(e) ==
    Cardinality({k \in 1..Len(validation.errors) : validation.errors[k] = e})

\* the pixel points (map points) of correspondences i and j are less than
\* 1 unit (0.01 unit) apart
PixelsClose(i, j) ==
    RLt(DistSq(RPoint(gcps[i].pixel), RPoint(gcps[j].pixel)), One)
MapsClose(i, j) ==
    RLt(DistSq(RPoint(gcps[i].map), RPoint(gcps[j].map)), Rat(1, 10000))

\* C11: for 3 or more correspondences, every pair (i, j), adjacent in the
\* list or not, whose pixel points are less than 1 apart or whose map points
\* are less than 0.01 apart makes the validation invalid, and each such pair
\* is itemized by exactly one error of its kind (no other pair is itemized).
DuplicatesItemized ==
    (Validated /\ Len(gcps) >= 3) =>
        \A i, j \in 1..Len(gcps) :
            (i < j) =>
                /\ Itemized([kind |-> "duplicatePixel", i |-> i, j |-> j])
                     = (IF PixelsClose(i, j) THEN 1 ELSE 0)
                /\ Itemized([kind |-> "duplicateMap", i |-> i, j |-> j])
                     = (IF MapsClose(i, j) THEN 1 ELSE 0)
                /\ (PixelsClose(i, j) \/ MapsClose(i, j)) => ~validation.valid

\* a list was validated whose only duplicates are not neighbours: the first
\* and last pixel points coincide, as do the first and third map points
DuplicatesItemizedReached ==
    /\ Validated /\ Len(gcps) = 4
    /\ validation.errors = <<[kind |-> "duplicatePixel", i |-> 1, j |-> 4],
                             [kind |-> "duplicateMap", i |-> 1, j |-> 3]>>


\* |(p2 - p1) x (p3 - p1)| of the pixel points of the first three
\* correspondences
FirstThreeCross ==
    LET p1 == gcps[1].pixel
        p2 == gcps[2].pixel
        p3 == gcps[3].pixel
    IN  Abs((p2[1] - p1[1]) * (p3[2] - p1[2]) - (p3[1] - p1[1]) * (p2[2] - p1[2]))

\* C12: validate rejects every list of 3 or more correspondences whose first
\* three pixel points have |u1(v2-v3) + u2(v3-v1) + u3(v1-v2)| < 1, wherever
\* the further points lie, and itemizes no collinearity error when that
\* quantity is >= 1.
FirstThreeCollinearRejected ==
    (Validated /\ Len(gcps) >= 3) =>
        /\ (FirstThreeCross < 1) =>
              /\ ~validation.valid
              /\ Itemized([kind |-> "collinear"]) = 1
        /\ (FirstThreeCross >= 1) => Itemized([kind |-> "collinear"]) = 0

\* a list was rejected for its first three points alone: they lie on a line,
\* the fourth does not, and the whole list has a least-squares solution
FirstThreeCollinearRejectedReached ==
    /\ Validated /\ Len(gcps) = 4
    /\ FirstThreeCross = 0
    /\ ~PixelsCollinear(gcps)
    /\ validation.errors = <<[kind |-> "collinear"]>>


\* the pairs of correspondences whose pixel points (map points) are close
ClosePixelPairs ==
    {p \in (1..Len(gcps)) \X (1..Len(gcps)) : p[1] < p[2] /\ PixelsClose(p[1], p[2])}
CloseMapPairs ==
    {p \in (1..Len(gcps)) \X (1..Len(gcps)) : p[1] < p[2] /\ MapsClose(p[1], p[2])}

\* the squared scales sx^2 = a^2 + c^2 and sy^2 = b^2 + d^2 of a matrix
ScaleXSq(m) == RAdd(RMul(m.a, m.a), RMul(m.c, m.c))
ScaleYSq(m) == RAdd(RMul(m.b, m.b), RMul(m.d, m.d))

\* the larger scale of m is more than 10 times the smaller one
Anisotropic(m) ==
    LET lo == IF RLe(ScaleXSq(m), ScaleYSq(m)) THEN ScaleXSq(m) ELSE ScaleYSq(m)
        hi == RMax(ScaleXSq(m), ScaleYSq(m))
    IN  RLt(RMul(FromInt(100), lo), hi)

\* C13: validate always returns a result, with valid = TRUE exactly when its
\* error list is empty; fewer than 3 correspondences give valid = FALSE with
\* an error; the anisotropy warning (scale ratio > 10) appears in warnings
\* only and never changes valid; a failing internal solve adds neither an
\* error nor a warning.
ValidateTotal ==
    Validated =>
        LET solved == SolveAffineTransform(gcps)
            found == Cardinality(ClosePixelPairs) + Cardinality(CloseMapPairs)
                       + (IF FirstThreeCross < 1 THEN 1 ELSE 0)
        IN  /\ validation.valid \in BOOLEAN
            /\ validation.valid <=> (validation.errors = <<>>)
            /\ (Len(gcps) < 3) =>
                  /\ ~validation.valid
                  /\ Len(validation.errors) = 1
                  /\ validation.warnings = <<>>
            /\ (Len(gcps) >= 3) =>
                  /\ Len(validation.errors) = found
                  /\ validation.valid <=> (found = 0)
                  /\ Itemized([kind |-> "scaleRatio"]) = 0
                  /\ validation.warnings \in {<<>>, <<[kind |-> "scaleRatio"]>>}
                  /\ (validation.warnings # <<>>) =>
                        (solved.err = "none" /\ Anisotropic(solved.m))
                  /\ (solved.err = "none" /\ Anisotropic(solved.m)
                        /\ ScaleXSq(solved.m) # Zero /\ ScaleYSq(solved.m) # Zero) =>
                        (validation.warnings # <<>>)
                  /\ (solved.err # "none") => (validation.warnings = <<>>)

\* a list eleven times wider than high was found valid, with the warning
ValidateTotalReached ==
    /\ Validated /\ Len(gcps) >= 3
    /\ validation.valid
    /\ validation.warnings = <<[kind |-> "scaleRatio"]>>


-----------------------------------------------------------------------------
(* Properties of isParallelogram *)

GateChecked == call # Null /\ call.op = "isParallelogram"

\* X is far above (sqrt(B) + sqrt(C))^2 <= 2 (B + C)
FarAbove(X, B, C) == Floor(X) > 2 * Floor(RAdd(B, C)) + 2

\* sqrt(X) < sqrt(B) + sqrt(C), for rationals X, B, C >= 0: with
\* over = X - B - C, iff over < 2 sqrt(B C), where
\* 2 min(B, C) <= 2 sqrt(B C) <= B + C
RootBelowRootSum(X, B, C) ==
    IF FarAbove(X, B, C) THEN FALSE
    ELSE LET over == RSub(X, RAdd(B, C))
         IN  IF RLt(over, RAdd(RMin(B, C), RMin(B, C))) THEN TRUE
             ELSE IF RLe(RAdd(B, C), over) THEN FALSE
             ELSE RLt(RMul(over, over), RMul(FromInt(4), RMul(B, C)))

\* sqrt(X) > sqrt(B) + sqrt(C), for rationals X, B, C >= 0
RootAboveRootSum(X, B, C) ==
    IF FarAbove(X, B, C) THEN TRUE
    ELSE LET over == RSub(X, RAdd(B, C))
         IN  IF RLe(over, RAdd(RMin(B, C), RMin(B, C))) THEN FALSE
             ELSE IF RLt(RAdd(B, C), over) THEN TRUE
             ELSE RLt(RMul(FromInt(4), RMul(B, C)), RMul(over, over))

\* (|e| / 1e-4)^2 for the displacement e of the checked edit
MoveOverTolSq == RMul(FromInt(100000000), DistSq(call.edit.e, <<Zero, Zero>>))

\* the squared lengths of the two diagonals of the checked corners
DiagonalSq(i) == DistSq(call.corners[i + 2], call.corners[i])

\* the original statement of C15, its tolerance taken as 1e-4 times the sum
\* of the two diagonals: every unmoved parallelogram is accepted, and every
\* edit that moves one corner by more than that tolerance is rejected.
GateToleranceProportional ==
    GateChecked =>
        /\ (call.edit.e = <<Zero, Zero>>) => call.result
        /\ RootAboveRootSum(MoveOverTolSq, DiagonalSq(1), DiagonalSq(2)) => ~call.result

\* C15 (amended): isParallelogram accepts every unmoved parallelogram (so
\* every translated, rotated or scaled rectangle, of any size); a
\* parallelogram of which one corner was moved by e is accepted exactly when
\* |e| < 1e-4 * max(1, d), d the sum of the lengths of the two diagonals of
\* the moved quadrilateral: the tolerance is proportional to d for d >= 1
\* and is the constant 1e-4 below.
GateToleranceFloored ==
    GateChecked =>
        /\ (call.edit.e = <<Zero, Zero>>) => call.result
        /\ call.result <=>
              \/ RLt(MoveOverTolSq, One)
              \/ RootBelowRootSum(MoveOverTolSq, DiagonalSq(1), DiagonalSq(2))

\* a square of side 1/1000 was accepted with one corner moved by 8 % of the
\* side
GateToleranceFlooredReached ==
    /\ GateChecked
    /\ call.edit.k = Rat(1, 1000)
    /\ call.edit.shape = <<<<1, 0>>, <<0, 1>>>>
    /\ call.edit.e = <<Rat(1, 12500), Zero>>
    /\ call.result


-----------------------------------------------------------------------------
(* Properties of createProxyPolygonFromAffine *)

\* C14: project returns, for every matrix M and image size W, H, a ring of
\* exactly 5 points: apply(M, (0,0)), apply(M, (W,0)), apply(M, (W,H)),
\* apply(M, (0,H)) in that order, then the first point again; the step
\* changes neither the matrix nor the session state.
FootprintRing ==
    [][(call' # Null /\ call'.op = "createProxyPolygonFromAffine") =>
          /\ affine' = affine
          /\ UNCHANGED session
          /\ Len(call'.result) = 5
          /\ call'.result =
                <<ApplyAffine(affine, Zero, Zero),
                  ApplyAffine(affine, FromInt(call'.w), Zero),
                  ApplyAffine(affine, FromInt(call'.w), FromInt(call'.h)),
                  ApplyAffine(affine, Zero, FromInt(call'.h)),
                  ApplyAffine(affine, Zero, Zero)>>]_vars

\* a sheared and shifted matrix was projected for an image wider than high
FootprintRingReached ==
    /\ call # Null /\ call.op = "createProxyPolygonFromAffine"
    /\ affine.b # Zero /\ affine.c # Zero /\ affine.tx # Zero
    /\ Det2(affine) # Zero
    /\ call.w > call.h
    /\ Cardinality({call.result[i] : i \in 1..5}) = 4


\* C23: every correspondence set that validateGCPs accepts (valid = true), of
\* any size >= 3, is one on which solveAffineTransform fails with neither
\* InsufficientPoints nor DegenerateGeometry.
ValidImpliesSolvable ==
    (Validated /\ validation.valid) =>
        /\ Len(gcps) >= 3
        /\ SolveAffineTransform(gcps).err
              \notin {"InsufficientPoints", "DegenerateGeometry"}

\* four correspondences were accepted by the validation and the solver
ValidImpliesSolvableReached ==
    /\ Validated /\ validation.valid
    /\ Len(gcps) = 4
    /\ SolveAffineTransform(gcps).err = "none"

-----------------------------------------------------------------------------
(* Properties of the image overlay session *)

\* the canvas source of the layer the session displays
DisplayedSource == (CHOOSE l \in layers : l.id = imageLayer.id).source

\* the step is a call of syncImageFromPolygon
SyncStep == call'.op = "syncImageFromPolygon"

\* the points of a ring of integer points, as points of rationals
RRing(ring) == [i \in 1..Len(ring) |-> RPoint(ring[i])]

\* C16: a syncImageFromPolygon whose polygon fails the parallelogram check,
\* or whose solve or invert fails, returns with that outcome and leaves the
\* session, its matrix and the displayed canvas source included, as it was;
\* when a sync changes the matrix or the source, the new source is the one
\* built from the new matrix.
SyncFailureKeepsSession ==
    [][SyncStep =>
          LET ring == call'.ring
              solved == SolvedFromCorners[originalImage, ring]
              failing ==
                  \/ ~IsParallelogram(SubSeq(RRing(ring), 1, 4))
                  \/ solved.err # "none"
                  \/ AbsBelowEps(Det2(solved.m))
          IN  /\ (call'.result # "ok") => UNCHANGED session
              /\ (originalImage # Null /\ imageLayer # Null /\ Len(ring) >= 5) =>
                    /\ failing => (call'.result # "ok")
                    /\ (call'.result = "ok") =>
                          /\ currentAffine' = solved.m
                          /\ DisplayedSource'.inverse = InvertAffine(solved.m).m
                          /\ DisplayedSource'.image = originalImage]_vars

\* a sync of a loaded session was refused because the matrix solved from a
\* parallelogram of area zero cannot be inverted
SyncFailureKeepsSessionReached ==
    /\ call # Null /\ call.op = "syncImageFromPolygon"
    /\ call.ring = FlatRing
    /\ call.result = "NonInvertible"
    /\ currentAffine # Null /\ imageLayer # Null

\* C17: syncImageFromPolygon changes the matrix only for a ring of exactly 5
\* points (4 corners and the closing point): for fewer or more corners the
\* session's matrix is left unchanged.
SyncNeedsFourCorners ==
    [][(SyncStep /\ Len(call'.ring) # 5) => currentAffine' = currentAffine]_vars

\* C18: after a successful syncImageFromPolygon of a ring of 4 corners, the
\* polygon the displayed canvas source clips with is
\* project(currentAffine, W, H).
FootprintFollowsMatrix ==
    (call # Null /\ call.op = "syncImageFromPolygon" /\ call.result = "ok"
       /\ Len(call.ring) = 5) =>
        RRing(DisplayedSource.polygon)
          = SubSeq(CreateProxyPolygonFromAffine(currentAffine, originalImage.w,
                                                originalImage.h), 1, 4)

\* C20: the outcome of a load that resumes after a newer load was called is
\* discarded: the session, the map and the vector source stay as they were.
StaleLoadDiscarded ==
    [][(call'.op = "resume" /\ call'.req < submitted) =>
          UNCHANGED <<imageLayer, proxyFeature, originalImage, currentAffine,
                      layers, features>>]_vars


\* hasImage(), and the session's fields are all present / all absent
HasImage == imageLayer # Null
AllPresent ==
    /\ imageLayer # Null /\ proxyFeature # Null
    /\ originalImage # Null /\ currentAffine # Null
AllAbsent ==
    /\ imageLayer = Null /\ proxyFeature = Null
    /\ originalImage = Null /\ currentAffine = Null

\* C21: whenever no load is suspended the session's fields are all present
\* or all absent (hasImage() iff getCurrentAffine() # null iff
\* getBoundingPolygon() # null iff the image is held); after clearImage all
\* are absent; syncImageFromPolygon on an absent session changes nothing.
SessionAllOrNothing ==
    [][/\ (loads' = {}) => (AllPresent' \/ AllAbsent')
       /\ (call'.op = "clearImage") => AllAbsent'
       /\ (SyncStep /\ ~HasImage) => UNCHANGED session]_vars

\* a load has completed with nothing suspended and all fields are present
SessionAllOrNothingReached ==
    /\ call # Null /\ call.op = "resume" /\ call.result = "ok"
    /\ loads = {}
    /\ AllPresent

\* C22: the session never holds a non-invertible matrix: getCurrentAffine()
\* is null or a matrix with |a*d - b*c| >= 1e-12.
SessionMatrixInvertible ==
    currentAffine # Null => ~AbsBelowEps(Det2(currentAffine))

\* a load with a matrix of determinant 0 was refused while the session holds
\* the matrix of another load
SessionMatrixInvertibleReached ==
    /\ call # Null /\ call.op = "resume" /\ call.result = "NonInvertible"
    /\ currentAffine # Null
    /\ Det2(currentAffine).n # 0

\* the ring of the last call is an exact parallelogram of 4 corners:
\* corner0 + corner2 = corner1 + corner3
ExactParallelogram ==
    /\ Len(call.ring) = 5
    /\ call.ring[1][1] + call.ring[3][1] = call.ring[2][1] + call.ring[4][1]
    /\ call.ring[1][2] + call.ring[3][2] = call.ring[2][2] + call.ring[4][2]

\* the image corner that belongs to ring corner i
ImageCorner(i) ==
    <<IF i \in {2, 3} THEN originalImage.w ELSE 0,
      IF i \in {3, 4} THEN originalImage.h ELSE 0>>

\* C24: after a successful syncImageFromPolygon of an exact parallelogram
\* the stored matrix maps each image corner exactly onto the polygon corner of
\* the same index: (0,0), (W,0), (W,H), (0,H) onto corners 0, 1, 2, 3.
SyncFitsCorners ==
    (call # Null /\ call.op = "syncImageFromPolygon" /\ call.result = "ok"
       /\ ExactParallelogram) =>
        \A i \in 1..4 :
            ApplyAffine(currentAffine, FromInt(ImageCorner(i)[1]),
                        FromInt(ImageCorner(i)[2])) = RPoint(call.ring[i])

\* the sheared parallelogram was synced into a session loaded at unit scale
SyncFitsCornersReached ==
    /\ call # Null /\ call.op = "syncImageFromPolygon" /\ call.result = "ok"
    /\ call.ring = ShearRing
    /\ currentAffine # Null /\ currentAffine.b # Zero

\* C25: the footprint project(M, W, H) of the session's matrix M passes the
\* parallelogram gate, and syncImageFromPolygon on that unedited footprint
\* succeeds and stores a matrix equal to M.
FootprintRoundTrip ==
    [][(SyncStep /\ AllPresent /\ call'.ring = Footprint(currentAffine, originalImage)) =>
          /\ IsParallelogram(SubSeq(CreateProxyPolygonFromAffine(
                 currentAffine, originalImage.w, originalImage.h), 1, 4))
          /\ call'.result = "ok"
          /\ currentAffine' = currentAffine]_vars

\* the footprint of the sheared and shifted matrix was synced unedited
FootprintRoundTripReached ==
    /\ call # Null /\ call.op = "syncImageFromPolygon" /\ call.result = "ok"
    /\ AllPresent
    /\ currentAffine.b = One /\ currentAffine.tx = FromInt(2)
    /\ call.ring = Footprint(currentAffine, originalImage)

\* C26: under any interleaving of loads and clears the map holds at most one
\* image layer and the vector source at most one footprint feature, and these
\* are exactly the ones imageLayer and proxyFeature refer to.
MapMatchesSession ==
    /\ Cardinality(layers) <= 1
    /\ Cardinality(features) <= 1
    /\ {l.id : l \in layers} = (IF imageLayer = Null THEN {} ELSE {imageLayer.id})
    /\ {f.id : f \in features} = (IF proxyFeature = Null THEN {} ELSE {proxyFeature.id})

\* a matrix has been decomposed
Decomposed == pc = "decomposed"

\* the matrix contains shear: its columns are not orthogonal
HasShear(m) == RAdd(RMul(m.a, m.b), RMul(m.c, m.d)) # Zero

\* C27: decompose warns of shear only for matrices that contain shear; for a
\* pure axis scale with a y flip (b = c = 0, a > 0, d < 0) it does not warn;
\* center always equals apply(M, (W/2, H/2)).
ShearWarningOnlyForShear ==
    Decomposed =>
        /\ call.result.warned => HasShear(call.m)
        /\ (call.m.b = Zero /\ call.m.c = Zero /\ call.m.a.n > 0 /\ call.m.d.n < 0)
              => ~call.result.warned
        /\ call.result.imageCenter
              = ApplyAffine(call.m, Rat(call.w, 2), Rat(call.h, 2))

\* the map has rendered a canvas from a canvas source
Rendered == pc = "rendered" /\ call.op = "canvasFunction"

\* the output pixels of the rendered canvas, row by row, and the four bytes
\* of one
OutPixels == 0..(call.result.width * call.result.height - 1)
OutRGBA(p) == [c \in 1..4 |-> call.result.data[4 * p + c]]

\* the map coordinate of output pixel p: the centre of its cell of the extent
CentreOf(p) ==
    LET w == call.result.width
        h == call.result.height
        cellW == RDiv(RSub(call.extent[3], call.extent[1]), FromInt(w))
        cellH == RDiv(RSub(call.extent[4], call.extent[2]), FromInt(h))
    IN  <<RAdd(call.extent[1], RMul(Rat(2 * (p % w) + 1, 2), cellW)),
          RSub(call.extent[4], RMul(Rat(2 * (p \div w) + 1, 2), cellH))>>

\* twice the signed area of the triangle a, b, q
Turn(a, b, q) ==
    RSub(RMul(RSub(b[1], a[1]), RSub(q[2], a[2])),
         RMul(RSub(b[2], a[2]), RSub(q[1], a[1])))

\* the edges of a polygon, as pairs of end points
EdgesOf(polygon) ==
    {<<RPoint(polygon[i]), RPoint(polygon[(i % Len(polygon)) + 1])>> :
        i \in 1..Len(polygon)}

\* q lies on the polygon's outline
OnOutline(q, polygon) ==
    \E e \in EdgesOf(polygon) :
        /\ Turn(e[1], e[2], q).n = 0
        /\ RLe(RMin(e[1][1], e[2][1]), q[1]) /\ RLe(q[1], RMax(e[1][1], e[2][1]))
        /\ RLe(RMin(e[1][2], e[2][2]), q[2]) /\ RLe(q[2], RMax(e[1][2], e[2][2]))

\* even-odd rule: the ray from q towards +x crosses an odd number of edges
EvenOddInside(q, polygon) ==
    LET crossing == {e \in EdgesOf(polygon) :
                        \/ /\ RLe(e[1][2], q[2]) /\ RLt(q[2], e[2][2])
                           /\ Turn(e[1], e[2], q).n > 0
                        \/ /\ RLe(e[2][2], q[2]) /\ RLt(q[2], e[1][2])
                           /\ Turn(e[1], e[2], q).n < 0}
    IN  Cardinality(crossing) % 2 = 1

\* the source coordinate of output pixel p, and whether it is in the image
SourceOf(p) ==
    LET q == CentreOf(p)
        i == call.source.inverse
    IN  <<RAdd(RAdd(RMul(i.a, q[1]), RMul(i.b, q[2])), i.tx),
          RAdd(RAdd(RMul(i.c, q[1]), RMul(i.d, q[2])), i.ty)>>
InImage(uv) ==
    /\ RLe(Zero, uv[1]) /\ RLt(uv[1], FromInt(call.source.image.w))
    /\ RLe(Zero, uv[2]) /\ RLt(uv[2], FromInt(call.source.image.h))

\* channel c of the image's pixel in column x of row y, columns and rows
\* past the last one counting as the last one
Texel(x, y, c) ==
    LET image == call.source.image
        cx == IF x > image.w - 1 THEN image.w - 1 ELSE x
        cy == IF y > image.h - 1 THEN image.h - 1 ELSE y
    IN  FromInt(image.data[4 * (cy * image.w + cx) + c])

\* channel c of the bilinear interpolation at uv: the four pixels around uv
\* weighted by the fractional offsets
Bilinear(uv, c) ==
    LET x0 == uv[1].n \div uv[1].d
        y0 == uv[2].n \div uv[2].d
        fx == RSub(uv[1], FromInt(x0))
        fy == RSub(uv[2], FromInt(y0))
        gx == RSub(One, fx)
        gy == RSub(One, fy)
    IN  RAdd(RAdd(RMul(RMul(gx, gy), Texel(x0, y0, c)),
                  RMul(RMul(fx, gy), Texel(x0 + 1, y0, c))),
             RAdd(RMul(RMul(gx, fy), Texel(x0, y0 + 1, c)),
                  RMul(RMul(fx, fy), Texel(x0 + 1, y0 + 1, c))))

\* output pixel p is off the outline and outside the footprint or the image;
\* off the outline, inside both
Blank(p) ==
    /\ ~OnOutline(CentreOf(p), call.source.polygon)
    /\ ~(EvenOddInside(CentreOf(p), call.source.polygon) /\ InImage(SourceOf(p)))
Sampled(p) ==
    /\ ~OnOutline(CentreOf(p), call.source.polygon)
    /\ EvenOddInside(CentreOf(p), call.source.polygon)
    /\ InImage(SourceOf(p))

\* C19 as stated: every output pixel outside the footprint polygon (even-odd
\* rule) or with (u,v) outside [0,W)x[0,H) is (0,0,0,0), and every other one
\* holds the bilinear interpolation of the source at (u,v).
WarpPixelsInterpolated ==
    Rendered =>
        \A p \in OutPixels :
            /\ Blank(p) => OutRGBA(p) = [c \in 1..4 |-> 0]
            /\ Sampled(p) =>
                 \A c \in 1..4 : RSub(FromInt(OutRGBA(p)[c]), Bilinear(SourceOf(p), c)).n = 0

\* C19: every output pixel outside the footprint polygon (even-odd rule) or
\* with (u,v) outside [0,W)x[0,H) is (0,0,0,0), and every other one holds, per
\* channel, the bilinear interpolation of the source at (u,v) rounded to the
\* nearest integer, a half rounding upwards.
WarpPixelsRounded ==
    Rendered =>
        \A p \in OutPixels :
            /\ Blank(p) => OutRGBA(p) = [c \in 1..4 |-> 0]
            /\ Sampled(p) =>
                 \A c \in 1..4 :
                     /\ RLe(RSub(FromInt(OutRGBA(p)[c]), Rat(1, 2)), Bilinear(SourceOf(p), c))
                     /\ RLt(Bilinear(SourceOf(p), c), RAdd(FromInt(OutRGBA(p)[c]), Rat(1, 2)))

\* the 2 x 2 image at scale 1 in a canvas of 4 x 4: pixels outside the
\* footprint, and a pixel inside whose interpolation is not a whole number
WarpPixelsRoundedReached ==
    /\ Rendered
    /\ call.result.width = 4 /\ call.result.height = 4
    /\ call.source.image.w = 2 /\ call.source.image.h = 2
    /\ call.source.inverse.a = One /\ call.source.inverse.d = FromInt(-1)
    /\ call.extent = <<Zero, Zero, FromInt(4), FromInt(4)>>
    /\ Cardinality({p \in OutPixels :
                       ~EvenOddInside(CentreOf(p), call.source.polygon)}) = 12
    /\ \A p \in OutPixels : Blank(p) => OutRGBA(p) = <<0, 0, 0, 0>>
    /\ Cardinality({p \in OutPixels : Sampled(p)}) = 4
    /\ \E p \in OutPixels : Sampled(p) /\ Bilinear(SourceOf(p), 1).d # 1


\* the four values of channel c that the last sampleBilinear read
ReadValues(c) == {call.image.data[call.reads[k] + c] : k \in 1..4}

\* C28: for every image size and every (u, v), the four reads of
\* sampleBilinear fall at indices within [0, 4*W*H), each returned channel
\* lies between the least and the greatest of the four values read, and at
\* an integer (u, v) inside the image the result is that pixel.
SampleSafeAndBounded ==
    (pc = "sampled") =>
        /\ \A k \in 1..4 :
              call.reads[k] >= 0
                /\ call.reads[k] + 3 < 4 * call.image.w * call.image.h
        /\ \A c \in 1..4 :
              /\ RLe(FromInt(SetMin(ReadValues(c))), call.result[c])
              /\ RLe(call.result[c], FromInt(SetMax(ReadValues(c))))
        /\ (/\ call.u.d = 1 /\ call.v.d = 1
            /\ call.u.n \in 0..(call.image.w - 1)
            /\ call.v.n \in 0..(call.image.h - 1)) =>
              \A c \in 1..4 :
                  call.result[c]
                    = FromInt(call.image.data[
                          4 * (call.v.n * call.image.w + call.u.n) + c])

\* the 2 x 2 image was sampled beyond its last column, between two rows
SampleSafeAndBoundedReached ==
    /\ pc = "sampled"
    /\ call.image.w = 2 /\ call.image.h = 2
    /\ call.u = FromInt(7) /\ call.v = Rat(1, 2)
    /\ call.result[2] = Rat(255, 1)
    /\ call.result[4] = Rat(383, 2)


\* handleMapClick is registered on the map, exactly once
ListenerOn == picker.listeners = 1
ListenerOff == picker.listeners = 0

\* C29: the map's single-click handler is registered exactly when the picker
\* is awaiting_map; the GCP list grows only by a map click in awaiting_map, by
\* exactly one GCP pairing the pending pixel with the clicked coordinate,
\* after which the state is idle and no pixel is pending; the ids in the list
\* stay pairwise distinct.
PickerProtocol ==
    [][/\ IF picker'.state = "awaiting_map" THEN ListenerOn' ELSE ListenerOff'
       /\ (Len(picker'.gcpList) > Len(picker.gcpList)) =>
             /\ call'.op = "mapClick"
             /\ picker.state = "awaiting_map"
             /\ picker.pendingPixel # Null
             /\ Len(picker'.gcpList) = Len(picker.gcpList) + 1
             /\ SubSeq(picker'.gcpList, 1, Len(picker.gcpList)) = picker.gcpList
             /\ picker'.gcpList[Len(picker'.gcpList)].pixel = picker.pendingPixel
             /\ picker'.gcpList[Len(picker'.gcpList)].map = call'.coordinate
             /\ picker'.state = "idle"
             /\ picker'.pendingPixel = Null
       /\ \A i, j \in 1..Len(picker'.gcpList) :
             i # j => picker'.gcpList[i].id # picker'.gcpList[j].id]_vars

\* a third GCP was picked after one of the first two was removed
PickerProtocolReached ==
    /\ call # Null /\ call.op = "mapClick"
    /\ picker.state = "idle" /\ picker.pendingPixel = Null
    /\ picker.gcpCounter = 3 /\ Len(picker.gcpList) = 2
    /\ ListenerOff


\* the modes that are active: drawing, and the edit controllers
ActiveModes ==
    (IF toolbar.currentMode # Null THEN {"draw"} ELSE {})
        \cup {c \in Controllers : toolbar.isActive[c]}

\* the buttons whose own mode is active
ButtonsOfActiveModes ==
    {ButtonOf(type) : type \in {ty \in DrawTypes : toolbar.currentMode = [mode |-> ty]}}
        \cup {c \in Controllers : toolbar.isActive[c]}

\* C30: after any sequence of toolbar clicks at most one of the drawing,
\* transform, rotate and scale modes is active, and a button carries the
\* class 'active' exactly when its own mode is active.
ModesExclusive ==
    /\ Cardinality(ActiveModes) <= 1
    /\ toolbar.active = ButtonsOfActiveModes

\* rotate was clicked while the Polygon mode was drawing
ModesExclusiveReached ==
    /\ call # Null /\ call.op = "click" /\ call.button = "rotate"
    /\ toolbar.isActive["rotate"]
    /\ toolbar.active = {"rotate"}
    /\ toolbar.currentMode = Null
    /\ Len(toolbar.drawn) > 0 /\ toolbar.drawn[Len(toolbar.drawn)] = "Polygon"

=============================================================================
